---- MODULE Spec2Model ----
(***************************************************************************)
(* Model of ntfy_api.subscription.NtfySubscription: the websocket          *)
(* connection reference, the consumer thread(s) running _thread_fn, the    *)
(* ClearableQueue of received messages, and the caller's operations        *)
(* connect / close / __enter__ / __exit__ / get / task_done.               *)
(***************************************************************************)
EXTENDS Integers, Sequences, FiniteSets, TLC

\* ---------------------------------------------------------------- bounds
MaxConnects == 2      \* connect() calls (one fresh connection object each)
MaxFrames == 3        \* frames the remote sends in all
MaxFairFrames == 2    \* the same, where the scheduling is looked at
MaxQueueSize == 1     \* largest max_queue_size tried (0 = unbounded)
MaxItems == 3         \* items a directly used queue holds at most
MaxTasks == 4         \* largest unfinished_tasks of a directly used queue
MaxLines == 3         \* lines of a poll response
MaxPolls == 2         \* streams poll() opens in all
MaxUrlParts == 4      \* pieces a URL string is made of
MaxStrLen == 2        \* characters of a string given to the serializer
MaxPools == 3         \* httpx.Client objects created in all
MaxNesting == 2       \* `with client:` blocks inside one another
MaxActions == 2       \* action objects in a received message

None == 0

Conns == 1..MaxConnects
Threads == 1..MaxConnects

\* What a frame's content does to json.loads / _ReceivedMessage.from_json.
FrameKinds == {"valid", "badjson", "badfield", "badaction"}

\* A frame is known by its number in sending order; its content is looked at
\* when the loop parses it.
NoFrame == 0

\* ------------------------------------------------------- Python values
\* A value and its type; a str is the sequence of its characters.
PyNone == [t |-> "none"]
Str(cs) == [t |-> "str", s |-> cs]
Tuple(es) == [t |-> "tuple", v |-> es]
List(es) == [t |-> "list", v |-> es]
PyInt(n) == [t |-> "int", n |-> n]

\* bool(x)
Truthy(x) ==
    CASE x.t = "none" -> FALSE
      [] x.t = "int" -> x.n # 0
      [] x.t = "str" -> Len(x.s) > 0
      [] OTHER -> Len(x.v) > 0

\* isinstance(x, str)
IsStr(x) == x.t = "str"

\* hasattr(x, "__len__")
HasLen(x) == x.t \in {"str", "tuple", "list"}

\* ------------------------------------------------------ Credentials
\* The ASCII characters 32..126, in order (three of them by name).
AsciiChars == <<
    " ", "!", "quote", "#", "$", "%", "&", "'", "(", ")", "*", "+",
    ",", "-", ".", "/", "0", "1", "2", "3", "4", "5", "6", "7",
    "8", "9", ":", ";", "<", "=", ">", "?", "@", "A", "B", "C",
    "D", "E", "F", "G", "H", "I", "J", "K", "L", "M", "N", "O",
    "P", "Q", "R", "S", "T", "U", "V", "W", "X", "Y", "Z", "[",
    "backslash", "]", "^", "_", "grave", "a", "b", "c", "d", "e", "f", "g",
    "h", "i", "j", "k", "l", "m", "n", "o", "p", "q", "r", "s",
    "t", "u", "v", "w", "x", "y", "z", "{", "|", "}", "~">>

\* ord(c)
Ord(c) == 31 + (CHOOSE i \in 1..Len(AsciiChars) : AsciiChars[i] = c)

\* s.encode("ascii")
EncodeAscii(cs) == [i \in 1..Len(cs) |-> Ord(cs[i])]

\* The base64 alphabet of base64.b64encode.
B64Alphabet == <<
    "A", "B", "C", "D", "E", "F", "G", "H", "I", "J", "K", "L",
    "M", "N", "O", "P", "Q", "R", "S", "T", "U", "V", "W", "X",
    "Y", "Z", "a", "b", "c", "d", "e", "f", "g", "h", "i", "j",
    "k", "l", "m", "n", "o", "p", "q", "r", "s", "t", "u", "v",
    "w", "x", "y", "z", "0", "1", "2", "3", "4", "5", "6", "7",
    "8", "9", "+", "/">>

B64Char(n) == B64Alphabet[n + 1]

\* base64.b64encode(bs).decode("ascii"): three bytes make four characters,
\* a last group of one or two bytes is padded with "=".
RECURSIVE B64Encode(_)
B64Encode(bs) ==
    IF Len(bs) = 0 THEN <<>>
    ELSE IF Len(bs) = 1
    THEN LET n == bs[1] * 16 IN
         <<B64Char(n \div 64), B64Char(n % 64), "=", "=">>
    ELSE IF Len(bs) = 2
    THEN LET n == (bs[1] * 256 + bs[2]) * 4 IN
         <<B64Char(n \div 4096), B64Char((n \div 64) % 64),
           B64Char(n % 64), "=">>
    ELSE LET n == bs[1] * 65536 + bs[2] * 256 + bs[3] IN
         <<B64Char(n \div 262144), B64Char((n \div 4096) % 64),
           B64Char((n \div 64) % 64), B64Char(n % 64)>>
         \o B64Encode(SubSeq(bs, 4, Len(bs)))

\* sep.join(strs), strs a sequence of str values.
RECURSIVE Join(_, _)
Join(sep, strs) ==
    IF Len(strs) = 0 THEN <<>>
    ELSE IF Len(strs) = 1 THEN strs[1].s
    ELSE strs[1].s \o sep \o Join(sep, Tail(strs))

\* Credentials._create_auth_header: {"Authorization": "<type> <creds>"},
\* a mapping written as the sequence of its items.
CreateAuthHeader(authType, creds) ==
    <<<<"Authorization", authType \o <<" ">> \o creds>>>>

BasicWord == <<"B", "a", "s", "i", "c">>
BearerWord == <<"B", "e", "a", "r", "e", "r">>

\* Credentials.get_header
CredentialsGetHeader(c) ==
    IF c.bearer # PyNone
    THEN [exc |-> "none", value |-> CreateAuthHeader(BearerWord, c.bearer.s)]
    ELSE IF IsStr(c.basic)
    THEN [exc |-> "none", value |-> CreateAuthHeader(BasicWord, c.basic.s)]
    ELSE IF /\ Truthy(c.basic)
            /\ HasLen(c.basic)
            /\ Len(c.basic.v) = 2
            /\ \A i \in 1..Len(c.basic.v) : IsStr(c.basic.v[i])
    THEN [exc |-> "none",
          value |-> CreateAuthHeader(
              BasicWord, B64Encode(EncodeAscii(Join(<<":">>, c.basic.v))))]
    ELSE IF Truthy(c.basic)
    THEN [exc |-> "ValueError", value |-> PyNone]
    ELSE [exc |-> "none", value |-> <<>>]

\* ------------------------------------------------------------- URL
\* Strings are sequences of characters. urllib.parse is the standard
\* library's (CPython 3.11): urlparse, urlunparse and their tables.

\* s.find(c, start), positions counted from 1; 0 if c does not occur.
RECURSIVE Find(_, _, _)
Find(s, c, start) ==
    IF start > Len(s) THEN 0
    ELSE IF s[start] = c THEN start
    ELSE Find(s, c, start + 1)

\* s.rfind(c) among s[1..n], from 1; 0 if c does not occur.
RECURSIVE RFind(_, _, _)
RFind(s, c, n) ==
    IF n = 0 THEN 0
    ELSE IF s[n] = c THEN n
    ELSE RFind(s, c, n - 1)

\* len(s[:n].rstrip(c))
RECURSIVE RStripLen(_, _, _)
RStripLen(s, c, n) ==
    IF n > 0 /\ s[n] = c THEN RStripLen(s, c, n - 1) ELSE n

\* s.rstrip(c)
RStrip(s, c) == SubSeq(s, 1, RStripLen(s, c, Len(s)))

\* The index of the first character of s[start..] that is not c.
RECURSIVE LStripFrom(_, _, _)
LStripFrom(s, c, start) ==
    IF start <= Len(s) /\ s[start] = c THEN LStripFrom(s, c, start + 1)
    ELSE start

\* s.lstrip(c)
LStrip(s, c) == SubSeq(s, LStripFrom(s, c, 1), Len(s))

\* The one element of a set of one element: the steps of a computation
\* are each given the value of the step before.
The(S) == CHOOSE x \in S : TRUE

UpperCase == <<"A", "B", "C", "D", "E", "F", "G", "H", "I", "J", "K", "L",
               "M", "N", "O", "P", "Q", "R", "S", "T", "U", "V", "W", "X",
               "Y", "Z">>
LowerCase == <<"a", "b", "c", "d", "e", "f", "g", "h", "i", "j", "k", "l",
               "m", "n", "o", "p", "q", "r", "s", "t", "u", "v", "w", "x",
               "y", "z">>
Letters == {UpperCase[i] : i \in 1..26} \cup {LowerCase[i] : i \in 1..26}

\* urllib.parse.scheme_chars
SchemeChars ==
    Letters \cup {"0", "1", "2", "3", "4", "5", "6", "7", "8", "9",
                  "+", "-", "."}

\* s.lower()
Lower(s) ==
    [i \in 1..Len(s) |->
        IF \E k \in 1..26 : UpperCase[k] = s[i]
        THEN LowerCase[CHOOSE k \in 1..26 : UpperCase[k] = s[i]]
        ELSE s[i]]

\* urllib.parse.uses_params
UsesParams ==
    {<<>>, <<"f", "t", "p">>, <<"h", "d", "l">>,
     <<"p", "r", "o", "s", "p", "e", "r", "o">>, <<"h", "t", "t", "p">>,
     <<"i", "m", "a", "p">>, <<"h", "t", "t", "p", "s">>,
     <<"s", "h", "t", "t", "p">>, <<"r", "t", "s", "p">>,
     <<"r", "t", "s", "p", "s">>, <<"r", "t", "s", "p", "u">>,
     <<"s", "i", "p">>, <<"s", "i", "p", "s">>, <<"m", "m", "s">>,
     <<"s", "f", "t", "p">>, <<"t", "e", "l">>}

\* urllib.parse.uses_netloc
UsesNetloc ==
    {<<>>, <<"f", "t", "p">>, <<"h", "t", "t", "p">>,
     <<"g", "o", "p", "h", "e", "r">>, <<"n", "n", "t", "p">>,
     <<"t", "e", "l", "n", "e", "t">>, <<"i", "m", "a", "p">>,
     <<"w", "a", "i", "s">>, <<"f", "i", "l", "e">>, <<"m", "m", "s">>,
     <<"h", "t", "t", "p", "s">>, <<"s", "h", "t", "t", "p">>,
     <<"s", "n", "e", "w", "s">>, <<"p", "r", "o", "s", "p", "e", "r", "o">>,
     <<"r", "t", "s", "p">>, <<"r", "t", "s", "p", "s">>,
     <<"r", "t", "s", "p", "u">>, <<"r", "s", "y", "n", "c">>,
     <<"s", "v", "n">>, <<"s", "v", "n", "+", "s", "s", "h">>,
     <<"s", "f", "t", "p">>, <<"n", "f", "s">>, <<"g", "i", "t">>,
     <<"g", "i", "t", "+", "s", "s", "h">>, <<"w", "s">>, <<"w", "s", "s">>}

\* _internals._SECURE_URL_SCHEMES
SecureUrlSchemes ==
    {<<"h", "t", "t", "p", "s">>, <<"w", "s", "s">>, <<"s", "f", "t", "p">>,
     <<"a", "a", "a", "s">>, <<"m", "s", "r", "p", "s">>,
     <<"s", "i", "p", "s">>}

\* The smaller of two positions, 0 standing for "not found".
MinFound(i, j) ==
    IF i = 0 THEN j ELSE IF j = 0 THEN i ELSE IF i < j THEN i ELSE j

\* url.split(c, 1) when the first c is at position i of url, and
\* <<url, "">> when i is 0.
SplitAt(url, i) ==
    IF i = 0 THEN <<url, <<>>>>
    ELSE <<SubSeq(url, 1, i - 1), SubSeq(url, i + 1, Len(url))>>

\* urlsplit, `i = url.find(':')` to `scheme, url = url[:i].lower(),
\* url[i+1:]`: <<scheme, url>>
SplitScheme(url, i) ==
    IF /\ i > 1
       /\ url[1] \in Letters
       /\ \A k \in 1..(i - 1) : url[k] \in SchemeChars
    THEN <<Lower(SubSeq(url, 1, i - 1)), SubSeq(url, i + 1, Len(url))>>
    ELSE <<<<>>, url>>

\* urlsplit, `if url[:2] == '//': netloc, url = _splitnetloc(url, 2)`,
\* delim the first of "/?#" from the third character on (0 if none):
\* <<netloc, url>>
SplitNetloc(url, delim) ==
    IF ~(Len(url) >= 2 /\ url[1] = "/" /\ url[2] = "/")
    THEN <<<<>>, url>>
    ELSE IF delim = 0 THEN <<SubSeq(url, 3, Len(url)), <<>>>>
    ELSE <<SubSeq(url, 3, delim - 1), SubSeq(url, delim, Len(url))>>

\* urlsplit step by step, x what the steps before have split off:
\* <<scheme, url>>, <<scheme, netloc, url>>,
\* <<scheme, netloc, url, fragment>>
UrlSplitNetloc(x) ==
    <<x[1]>> \o SplitNetloc(x[2],
                            MinFound(Find(x[2], "/", 3),
                                     MinFound(Find(x[2], "?", 3),
                                              Find(x[2], "#", 3))))
UrlSplitFragment(x) == <<x[1], x[2]>> \o SplitAt(x[3], Find(x[3], "#", 1))
UrlSplitQuery(x) ==
    <<x[1], x[2]>> \o SplitAt(x[3], Find(x[3], "?", 1)) \o <<x[4]>>

\* urllib.parse.urlsplit(url): <<scheme, netloc, path, query, fragment>>
UrlSplit(url) ==
    The({UrlSplitQuery(c) :
           c \in {UrlSplitFragment(b) :
                    b \in {UrlSplitNetloc(a) :
                             a \in {SplitScheme(url, Find(url, ":", 1))}}}})

\* urllib.parse._splitparams(url): <<path, params>>
SplitParams(url) ==
    SplitAt(url, IF Find(url, "/", 1) # 0
                 THEN Find(url, ";", RFind(url, "/", Len(url)))
                 ELSE Find(url, ";", 1))

\* urlparse, from `if scheme in uses_params and ';' in url:` on, s what
\* urlsplit returned.
UrlParseParams(s) ==
    <<s[1], s[2]>>
    \o (IF s[1] \in UsesParams /\ Find(s[3], ";", 1) # 0
        THEN SplitParams(s[3])
        ELSE <<s[3], <<>>>>)
    \o <<s[4], s[5]>>

\* urllib.parse.urlparse(url):
\* <<scheme, netloc, path, params, query, fragment>>
UrlParse(url) == The({UrlParseParams(s) : s \in {UrlSplit(url)}})

\* urllib.parse.urlunsplit((scheme, netloc, url, query, fragment))
UrlUnsplit(scheme, netloc, path, query, fragment) ==
    LET slashes == \/ netloc # <<>>
                   \/ /\ scheme # <<>>
                      /\ scheme \in UsesNetloc
                      /\ ~(Len(path) >= 2 /\ path[1] = "/" /\ path[2] = "/")
        u1 == IF slashes
              THEN <<"/", "/">> \o netloc
                   \o (IF path # <<>> /\ path[1] # "/"
                       THEN <<"/">> \o path ELSE path)
              ELSE path
        u2 == IF scheme # <<>> THEN scheme \o <<":">> \o u1 ELSE u1
        u3 == IF query # <<>> THEN u2 \o <<"?">> \o query ELSE u2
    IN  IF fragment # <<>> THEN u3 \o <<"#">> \o fragment ELSE u3

\* urllib.parse.urlunparse((scheme, netloc, url, params, query, fragment))
UrlUnparse(scheme, netloc, path, params, query, fragment) ==
    UrlUnsplit(scheme, netloc,
               IF params # <<>> THEN path \o <<";">> \o params ELSE path,
               query, fragment)

\* URL(scheme, netloc, path, params, query, fragment)
URL(c) ==
    [t |-> "URL", scheme |-> c[1], netloc |-> c[2], path |-> c[3],
     params |-> c[4], query |-> c[5], fragment |-> c[6]]

\* URL.parse(url)
URL_parse(url) ==
    The({URL(<<c[1], c[2], RStrip(c[3], "/"), c[4], c[5], c[6]>>) :
           c \in {UrlParse(url)}})

\* URL._unparse(path, scheme)
URL__unparse(self, path, scheme) ==
    UrlUnparse(scheme, self.netloc, path, self.params, self.query,
               self.fragment)

\* URL.unparse(endpoint, scheme)
URL_unparse(self, endpoint, scheme) ==
    LET parts == IF IsStr(endpoint) THEN <<endpoint>> ELSE endpoint.v
        e == Join(<<"/">>,
                  [i \in 1..Len(parts) |-> Str(LStrip(parts[i].s, "/"))])
        path == IF Truthy(endpoint) THEN self.path \o <<"/">> \o e
                ELSE self.path
        sch == IF Truthy(scheme)
               THEN scheme.v[IF self.scheme \in SecureUrlSchemes
                             THEN 2 ELSE 1].s
               ELSE self.scheme
    IN  URL__unparse(self, path, sch)

\* ---------------------------------------------------------- actions
\* bool and dict values; a dict is the sequence of its items, the keys
\* being strings of characters where they are written out.
Bool(b) == [t |-> "bool", b |-> b]
Dict(items) == [t |-> "dict", items |-> items]

\* s.replace(c, r), c one character.
RECURSIVE Replace(_, _, _)
Replace(s, c, r) ==
    IF Len(s) = 0 THEN <<>>
    ELSE (IF s[1] = c THEN r ELSE <<s[1]>>) \o Replace(Tail(s), c, r)

\* The characters that make _default_serializer enclose a string.
QuotingChars == {",", ";", "=", "'", "quote", "backslash"}

\* A serializer that escapes the double quotes first.
EscapeQuotesFirst(value) ==
    Replace(Replace(value, "quote", <<"backslash", "quote">>),
            "backslash", <<"backslash", "backslash">>)

\* _default_serializer, `for k in ("\\", '"'): value = value.replace(k,
\* f"\\{k}")`
Escape(value) ==
    Replace(Replace(value, "backslash", <<"backslash", "backslash">>),
            "quote", <<"backslash", "quote">>)

\* _default_serializer on a str, the escaped value given.
Enclose(escaped) ==
    IF \E i \in 1..Len(escaped) : escaped[i] \in QuotingChars
    THEN <<"quote">> \o escaped \o <<"quote">>
    ELSE escaped

\* _default_serializer(None, v) for the value of a mapping's item.
SerializeItemValue(v) ==
    IF IsStr(v) THEN [exc |-> "none", value |-> Enclose(Escape(v.s))]
    ELSE IF v.t = "bool"
    THEN [exc |-> "none",
          value |-> IF v.b THEN <<"t", "r", "u", "e">>
                    ELSE <<"f", "a", "l", "s", "e">>]
    ELSE [exc |-> "TypeError", value |-> <<>>]

\* The value of item i of a mapping serialized to `one`, before the
\* items after it, serialized to `rest`.
Item(key, items, i, one, rest) ==
    IF one.exc # "none" THEN one
    ELSE IF rest.exc # "none" THEN rest
    ELSE [exc |-> "none",
          value |-> key \o <<".">> \o items[i][1] \o <<"=">> \o one.value
                    \o (IF i < Len(items) THEN <<",">> \o rest.value
                        ELSE <<>>)]

\* ",".join(f"{key}.{k}={...}" for k, v in value.items()), from item i.
RECURSIVE SerializeItems(_, _, _)
SerializeItems(key, items, i) ==
    IF i > Len(items) THEN [exc |-> "none", value |-> <<>>]
    ELSE The({Item(key, items, i, one, rest) :
                one \in {SerializeItemValue(items[i][2])},
                rest \in {SerializeItems(key, items, i + 1)}})

\* _Action._default_serializer(key, value), key a string or None.
DefaultSerializer(key, value) ==
    IF IsStr(value) \/ value.t = "bool" THEN SerializeItemValue(value)
    ELSE IF Truthy(key) /\ value.t = "dict"
    THEN SerializeItems(key.s, value.items, 1)
    ELSE [exc |-> "TypeError", value |-> <<>>]

\* A _serialize that skips every falsy value.
UnsetOrFalsy(v) == v = PyNone \/ (v.t = "bool" /\ ~v.b)

\* _serialize, `if v is None: continue`
Unset(v) == v = PyNone

\* The segment of a field <<name, assign, value>> whose value serialized
\* to `one`, before the segments `rest` of the fields after it.
Segment(field, one, rest) ==
    IF one.exc # "none" THEN one
    ELSE IF rest.exc # "none" THEN rest
    ELSE [exc |-> "none",
          value |-> <<IF field[2] THEN field[1] \o <<"=">> \o one.value
                      ELSE one.value>> \o rest.value]

\* _Action._serialize from field i on: the segments after the action's
\* name.
RECURSIVE Segments(_, _)
Segments(fields, i) ==
    IF i > Len(fields) THEN [exc |-> "none", value |-> <<>>]
    ELSE IF Unset(fields[i][3]) THEN Segments(fields, i + 1)
    ELSE The({Segment(fields[i], one, rest) :
                one \in {DefaultSerializer(Str(fields[i][1]), fields[i][3])},
                rest \in {Segments(fields, i + 1)}})

\* ",".join(segments), the segments strings of characters.
RECURSIVE JoinSegments(_)
JoinSegments(segs) ==
    IF Len(segs) = 0 THEN <<>>
    ELSE IF Len(segs) = 1 THEN segs[1]
    ELSE segs[1] \o <<",">> \o JoinSegments(Tail(segs))

\* _Action.serialize() of an action [action, fields].
ActionSerialize(a) ==
    The({IF segs.exc # "none" THEN [exc |-> segs.exc, value |-> PyNone]
         ELSE [exc |-> "none",
               value |-> Str(JoinSegments(<<a.action>> \o segs.value))] :
           segs \in {Segments(a.fields, 1)}})

\* The client before it is constructed.
NoClient == [base_url |-> PyNone, default_topic |-> PyNone,
             credentials |-> PyNone]

\* No poll() call has been made.
NoGenerator == [pc |-> "none"]

VARIABLES
    maxsize,      \* NtfySubscription.max_queue_size (ClearableQueue.maxsize)
    wsConn,       \* NtfySubscription._ws_conn (None or a connection)
    threadRef,    \* NtfySubscription._thread (None or a thread)
    nconn,        \* connection objects created so far
    closeCalls,   \* per connection: number of close() calls on the socket
    remoteClosed, \* per connection: the remote closed it
    sent,         \* frames sent so far, on all connections
    tpc,          \* per thread: position in _thread_fn
    tconn,        \* per thread: connection its recv call was made on
    traw,         \* per thread: local `raw` is bound
    tframe,       \* per thread: frame returned by recv, being processed
    queue,        \* ClearableQueue.queue
    unfinished,   \* ClearableQueue.unfinished_tasks
    callerPc,     \* caller thread: position inside connect()/close()
    op,           \* caller thread: public operation in progress
    closeTarget,  \* connection close() found in _ws_conn (None if none)
    inScope,      \* caller is inside `with subscription:`
    err,          \* exception the caller's operation is raising
    nullPuts,     \* per thread: items enqueued since _ws_conn became None
    taken,        \* items a counting caller got and has not yet reported
                  \* done by task_done()
    joinPc,       \* per waiter thread: position in messages.join()
    client,       \* NtfyClient: base_url, default_topic, credentials
    call,         \* last call made on the client or on a Credentials
    ret,          \* what that call returned or raised
    requests,     \* HTTP requests that call has sent
    poll,         \* the generator a poll() call returned
    streams,      \* streaming responses: opened so far, open now
    httpClient,   \* NtfyClient._http_client (None or a pool)
    isClosed,     \* per httpx.Client created so far: is_closed
    withDepth,    \* `with client:` blocks the caller is inside
    url,          \* a URL instance
    raw           \* a JSON object as json.loads returned it

vars == <<maxsize, wsConn, threadRef, nconn, closeCalls, remoteClosed, sent,
          tpc, tconn, traw, tframe, queue, unfinished, callerPc,
          op, closeTarget, inScope, err, nullPuts, taken, joinPc,
          client, call, ret, requests, poll, streams,
          httpClient, isClosed, withDepth, url, raw>>

refVars == <<wsConn, threadRef, nconn>>
connVars == <<closeCalls, remoteClosed, sent>>
threadVars == <<tpc, tconn, traw, tframe>>
queueVars == <<queue, unfinished>>
callerVars == <<callerPc, op, closeTarget, inScope, err>>
histVars == <<nullPuts, taken>>
subscriptionVars == <<maxsize, refVars, connVars, threadVars, queueVars,
                      callerVars, histVars>>
joinVars == <<joinPc>>
\* What the subscription's own steps, the queue's notifications apart,
\* leave alone.
callVars == <<call, ret, requests>>
pollVars == <<poll, streams>>
poolVars == <<httpClient, isClosed, withDepth>>
objectVars == <<url, raw>>
clientVars == <<client, callVars, pollVars, poolVars, objectVars>>
otherVars == <<joinVars, clientVars>>

\* Threads that call messages.join().
Waiters == 1..2

\* Thread.is_alive(): started and not yet finished. A thread whose target
\* raised is alive until threading's excepthook has run.
Alive(t) == tpc[t] \in {"check", "call", "recv", "put", "raised"}

ConnClosed(c) == closeCalls[c] > 0 \/ remoteClosed[c]

Init ==
    /\ maxsize \in 0..MaxQueueSize
    /\ wsConn = None
    /\ threadRef = None
    /\ nconn = 0
    /\ closeCalls = [c \in Conns |-> 0]
    /\ remoteClosed = [c \in Conns |-> FALSE]
    /\ sent = 0
    /\ tpc = [t \in Threads |-> "new"]
    /\ tconn = [t \in Threads |-> None]
    /\ traw = [t \in Threads |-> FALSE]
    /\ tframe = [t \in Threads |-> NoFrame]
    /\ queue = <<>>
    /\ unfinished = 0
    /\ callerPc = "idle"
    /\ op = "none"
    /\ closeTarget = None
    /\ inScope = FALSE
    /\ err = "none"
    /\ nullPuts = [t \in Threads |-> 0]
    /\ taken = 0
    /\ joinPc = [w \in Waiters |-> "none"]
    /\ client = NoClient
    /\ call = [op |-> "none"]
    /\ ret = [exc |-> "none", value |-> PyNone]
    /\ requests = <<>>
    /\ poll = NoGenerator
    /\ streams = [opened |-> 0, open |-> 0]
    /\ httpClient = None
    /\ isClosed = <<>>
    /\ withDepth = 0
    /\ url = PyNone
    /\ raw = PyNone

\* ------------------------------------------------------------ the remote
\* The remote closes the connection. Only recv reads this, so the close
\* is taken to happen while some thread waits in recv on the connection.
RemoteClose(c) ==
    /\ \E t \in Threads : tpc[t] = "recv" /\ tconn[t] = c
    /\ ~ConnClosed(c)
    /\ remoteClosed' = [remoteClosed EXCEPT ![c] = TRUE]
    /\ UNCHANGED otherVars
    /\ UNCHANGED <<maxsize, refVars, closeCalls, sent, threadVars, queueVars,
                   callerVars, histVars>>

\* ------------------------------------------------------ ClearableQueue
\* A put() that appends whatever the queue holds.
QueuePutIgnoresCapacity(q, n, item, cap) ==
    [exc |-> "none", queue |-> Append(q, item), unfinished |-> n + 1]

\* queue.Queue.put(item, block=False): queue.Full on a full bounded queue,
\* else the item is appended and counted as unfinished.
QueuePut(q, n, item, cap) ==
    IF cap > 0 /\ Len(q) >= cap
    THEN [exc |-> "Full", queue |-> q, unfinished |-> n]
    ELSE [exc |-> "none", queue |-> Append(q, item), unfinished |-> n + 1]

\* A clear() that zeroes the count of unfinished tasks and never raises.
QueueClearResetsToZero(q, n) ==
    [exc |-> "none", queue |-> <<>>, unfinished |-> 0]

\* A clear() that settles the accounting and leaves the items queued.
QueueClearKeepsItems(q, n) ==
    LET rest == n - Len(q) IN
    IF rest < 0
    THEN [exc |-> "ValueError", queue |-> q, unfinished |-> n]
    ELSE [exc |-> "none", queue |-> q, unfinished |-> rest]

\* A clear() without the check for misuse.
QueueClearWithoutCheck(q, n) ==
    [exc |-> "none", queue |-> <<>>, unfinished |-> n - Len(q)]

\* ClearableQueue.clear(): unfinished_tasks - len(queue) < 0 raises
\* ValueError and changes nothing, else the queue is emptied and
\* unfinished_tasks becomes the difference.
QueueClear(q, n) ==
    LET rest == n - Len(q) IN
    IF rest < 0
    THEN [exc |-> "ValueError", queue |-> q, unfinished |-> n]
    ELSE [exc |-> "none", queue |-> <<>>, unfinished |-> rest]

\* A clear() that notifies nobody.
QueueClearNeverNotifies(q, n) == FALSE

\* clear(): `self.all_tasks_done.notify_all()` is reached when the
\* difference is <= 0 and the ValueError of < 0 was not raised.
QueueClearNotifies(q, n) ==
    LET rest == n - Len(q) IN rest <= 0 /\ ~(rest < 0)

\* queue.Queue.task_done(): one more than the unfinished count raises
\* ValueError and changes nothing.
QueueTaskDone(n) ==
    IF n - 1 < 0
    THEN [exc |-> "ValueError", unfinished |-> n]
    ELSE [exc |-> "none", unfinished |-> n - 1]

\* task_done() notifies all_tasks_done when the count reaches zero.
QueueTaskDoneNotifies(n) == n - 1 = 0

\* Condition.notify_all() on all_tasks_done: every thread waiting in
\* join() is woken and will test unfinished_tasks again under the mutex.
NotifyAll(jp) ==
    [w \in Waiters |-> IF jp[w] = "waiting" THEN "woken" ELSE jp[w]]

\* queue.Queue.join(): `while self.unfinished_tasks: wait()`.
JoinMustWait(n) == n # 0

\* ------------------------------------------------------ _thread_fn
\* A loop without the null check: it goes to recv whatever the reference is.
LoopGuardAbsent(ref) == "recv"

\* `if self._ws_conn is None: return`
LoopGuard(ref) == IF ref = None THEN "return" ELSE "recv"

\* json.loads(raw) followed by _ReceivedMessage.from_json(data): the
\* exception the frame's content raises, "none" if it parses.
\* _parse_actions looks the `action` discriminator up with a.pop("action")
\* and a dict subscript: a missing or unknown one is a KeyError.
ParseFrame(kind) ==
    CASE kind = "valid" -> "none"
      [] kind = "badjson" -> "JSONDecodeError"
      [] kind = "badfield" -> "ValueError"
      [] kind = "badaction" -> "KeyError"

\* A loop without the `except json.decoder.JSONDecodeError` clause: the
\* decode error leaves _thread_fn.
HandlerWithoutDecodeClause(exc, rawBound) ==
    CASE exc = "none" -> "continue"
      [] exc \in {"ValueError", "TypeError", "AttributeError"} ->
            IF rawBound THEN "continue" ELSE "UnboundLocalError"
      [] exc = "ConnectionClosed" -> "return"
      [] OTHER -> exc

\* The except clauses of the loop: what the loop does on an exception of
\* the try body. The two logging handlers format `raw`, which is unbound
\* until a recv call has returned once in this thread.
Handler(exc, rawBound) ==
    CASE exc = "none" -> "continue"
      [] exc \in {"JSONDecodeError", "ValueError", "TypeError",
                  "AttributeError"} ->
            IF rawBound THEN "continue" ELSE "UnboundLocalError"
      [] exc = "ConnectionClosed" -> "return"
      [] OTHER -> exc

\* Where the loop is after the handler's verdict h: back at the top,
\* returned (the thread is over), or leaving _thread_fn with an exception.
AfterHandler(h) ==
    CASE h = "continue" -> "check"
      [] h = "return" -> "dead"
      [] OTHER -> "raised"

\* The thread's position after the try body ended with `exc`. The locals
\* go with the thread.
AfterTry(t, exc) ==
    LET h == Handler(exc, traw[t]) IN
    /\ tpc' = [tpc EXCEPT ![t] = AfterHandler(h)]
    /\ traw' = [traw EXCEPT ![t] = IF h = "continue" THEN @ ELSE FALSE]

\* Top of `while True`: the null check.
ThreadCheck(t) ==
    /\ tpc[t] = "check"
    /\ IF LoopGuard(wsConn) = "return"
       THEN /\ tpc' = [tpc EXCEPT ![t] = "dead"]
            /\ traw' = [traw EXCEPT ![t] = FALSE]
       ELSE /\ tpc' = [tpc EXCEPT ![t] = "call"]
            /\ traw' = traw
    /\ UNCHANGED otherVars
    /\ UNCHANGED <<maxsize, refVars, connVars, tconn, tframe, queueVars,
                   callerVars, histVars>>

\* `self._ws_conn.recv`: the reference is read again; None has no recv.
ThreadCall(t) ==
    /\ tpc[t] = "call"
    /\ IF wsConn = None
       THEN /\ AfterTry(t, "AttributeError")
            /\ tconn' = tconn
       ELSE /\ tconn' = [tconn EXCEPT ![t] = wsConn]
            /\ tpc' = [tpc EXCEPT ![t] = "recv"]
            /\ traw' = traw
    /\ UNCHANGED otherVars
    /\ UNCHANGED <<maxsize, refVars, connVars, tframe, queueVars, callerVars,
                   histVars>>

\* recv() returns a frame the remote has sent (on a closed connection, one
\* that was buffered before the close), and json.loads and from_json run on
\* it: thread-local work, up to the put of a message that parsed. k is what
\* the frame's content does to the parsers.
ThreadRecvFrame(t, k) ==
    /\ tpc[t] = "recv"
    /\ sent < MaxFrames
    /\ sent' = sent + 1
    /\ LET parsed == ParseFrame(k)
           h == Handler(parsed, TRUE)
       IN IF parsed = "none"
          THEN /\ tpc' = [tpc EXCEPT ![t] = "put"]
               /\ tframe' = [tframe EXCEPT ![t] = sent + 1]
               /\ traw' = [traw EXCEPT ![t] = TRUE]
               /\ tconn' = tconn
          ELSE /\ tpc' = [tpc EXCEPT ![t] = AfterHandler(h)]
               /\ traw' = [traw EXCEPT ![t] = (h = "continue")]
               /\ tconn' = [tconn EXCEPT ![t] = None]
               /\ tframe' = tframe
    /\ UNCHANGED otherVars
    /\ UNCHANGED <<maxsize, refVars, closeCalls, remoteClosed, queueVars,
                   callerVars, histVars>>

\* recv() raises ConnectionClosed on a closed connection.
ThreadRecvClosed(t) ==
    /\ tpc[t] = "recv"
    /\ ConnClosed(tconn[t])
    /\ AfterTry(t, "ConnectionClosed")
    /\ tconn' = [tconn EXCEPT ![t] = None]
    /\ UNCHANGED otherVars
    /\ UNCHANGED <<maxsize, refVars, connVars, tframe, queueVars, callerVars,
                   histVars>>

\* `self.messages.put(_ReceivedMessage.from_json(data), block=False)`, the
\* put itself.
ThreadPut(t) ==
    /\ tpc[t] = "put"
    /\ tframe' = [tframe EXCEPT ![t] = NoFrame]
    /\ tconn' = [tconn EXCEPT ![t] = None]
    /\ LET msg == [conn |-> tconn[t], seq |-> tframe[t]]
           put == QueuePut(queue, unfinished, msg, maxsize)
       IN /\ AfterTry(t, put.exc)
          /\ queue' = put.queue
          /\ unfinished' = put.unfinished
          /\ nullPuts' = [nullPuts EXCEPT ![t] =
                            IF wsConn = None /\ put.exc = "none"
                            THEN @ + 1 ELSE @]
          /\ taken' = taken
    /\ UNCHANGED otherVars
    /\ UNCHANGED <<maxsize, refVars, connVars, callerVars>>

\* An exception left _thread_fn: threading reports it and the thread is
\* over.
ThreadDie(t) ==
    /\ tpc[t] = "raised"
    /\ tpc' = [tpc EXCEPT ![t] = "dead"]
    /\ UNCHANGED otherVars
    /\ UNCHANGED <<maxsize, refVars, connVars, tconn, traw, tframe, queueVars,
                   callerVars, histVars>>

\* What the thread does by itself.
ThreadStep(t) ==
    \/ ThreadCheck(t)
    \/ ThreadCall(t)
    \/ ThreadRecvClosed(t)
    \/ ThreadPut(t)
    \/ ThreadDie(t)

\* ------------------------------------------------------ connect()
\* `object.__setattr__(self, "_ws_conn", connection or ws_client.connect(...))`:
\* a connection object not used before, supplied or newly opened.
ConnectSet(who) ==
    /\ nconn < MaxConnects
    /\ nconn' = nconn + 1
    /\ wsConn' = nconn + 1
    /\ callerPc' = "conn_clear"
    /\ op' = who

\* connect() called by the user.
Connect ==
    /\ callerPc = "idle"
    /\ ConnectSet("connect")
    /\ UNCHANGED otherVars
    /\ UNCHANGED <<maxsize, threadRef, connVars, threadVars, queueVars,
                   closeTarget, inScope, err, histVars>>

\* Rest of connect(): `self.messages.clear()`, then the new thread is
\* created, stored in _thread and started. A ValueError of clear() leaves
\* connect() before a thread exists.
ConnectClear ==
    /\ callerPc = "conn_clear"
    /\ LET r == QueueClear(queue, unfinished) IN
       /\ queue' = r.queue
       /\ unfinished' = r.unfinished
       /\ err' = r.exc
       /\ IF r.exc = "none"
          THEN /\ threadRef' = wsConn
               /\ tpc' = [tpc EXCEPT ![wsConn] = "check"]
               /\ inScope' = (inScope \/ op = "enter")
               /\ callerPc' = "idle"
          ELSE /\ UNCHANGED <<threadRef, tpc, inScope>>
               /\ callerPc' = "raising"
    /\ op' = "none"
    /\ joinPc' = IF QueueClearNotifies(queue, unfinished)
                 THEN NotifyAll(joinPc) ELSE joinPc
    /\ UNCHANGED clientVars
    /\ UNCHANGED <<maxsize, wsConn, nconn, connVars, tconn, traw, tframe,
                   closeTarget, histVars>>

\* ------------------------------------------------------ close()
\* `if self._ws_conn:`
CloseHasConn(ref) == ref # None

\* A close() that keeps the reference to the socket it closed.
ClosedRefKept(ref) == ref

\* `object.__setattr__(self, "_ws_conn", None)`
ClosedRef(ref) == None

\* A close() that returns without joining the thread.
JoinSkipped(th) == TRUE

\* `if self._thread and self._thread.is_alive(): self._thread.join()`:
\* close() gets past the join once the thread is not alive.
JoinDone(th) == IF th = None THEN TRUE ELSE ~Alive(th)

\* First statement of close(): `self._ws_conn.close()` when a connection is
\* held.
CloseBegin(who) ==
    /\ op' = who
    /\ IF CloseHasConn(wsConn)
       THEN /\ closeCalls' = [closeCalls EXCEPT ![wsConn] = @ + 1]
            /\ closeTarget' = wsConn
            /\ callerPc' = "close_null"
       ELSE /\ closeCalls' = closeCalls
            /\ closeTarget' = None
            /\ callerPc' = "close_join"

\* close() called by the user.
Close ==
    /\ callerPc = "idle"
    /\ CloseBegin("close")
    /\ UNCHANGED otherVars
    /\ UNCHANGED <<maxsize, refVars, remoteClosed, sent, threadVars,
                   queueVars, inScope, err, histVars>>

\* The reference is dropped.
CloseNull ==
    /\ callerPc = "close_null"
    /\ wsConn' = ClosedRef(wsConn)
    /\ nullPuts' = [t \in Threads |-> 0]
    /\ taken' = taken
    /\ callerPc' = "close_join"
    /\ UNCHANGED otherVars
    /\ UNCHANGED <<maxsize, threadRef, nconn, connVars, threadVars, queueVars,
                   op, closeTarget, inScope, err>>

\* `return False` of __exit__: the with-body's exception is not swallowed.
ExitReturn == FALSE

\* The join is over (or was not needed) and close() returns; __exit__ then
\* returns False and an exception of the body (bodyRaised: the scope was
\* left by one) goes on to the caller.
CloseJoin(bodyRaised) ==
    /\ callerPc = "close_join"
    /\ JoinDone(threadRef)
    /\ bodyRaised => op = "exit"
    /\ op' = "none"
    /\ closeTarget' = None
    /\ inScope' = IF op = "exit" THEN FALSE ELSE inScope
    /\ IF op = "exit" /\ bodyRaised /\ ~ExitReturn
       THEN /\ callerPc' = "raising"
            /\ err' = "BodyError"
       ELSE /\ callerPc' = "idle"
            /\ err' = err
    /\ UNCHANGED otherVars
    /\ UNCHANGED <<maxsize, refVars, connVars, threadVars, queueVars,
                   histVars>>

\* ------------------------------------------------------ scoped use
\* An __enter__ that connects whether or not a connection is held.
EnterAlwaysConnects(ref) == TRUE

\* `if not self._ws_conn: self.connect()`
EnterConnects(ref) == ref = None

\* __enter__
Enter ==
    /\ callerPc = "idle"
    /\ ~inScope
    /\ IF EnterConnects(wsConn)
       THEN /\ ConnectSet("enter")
            /\ UNCHANGED inScope
       ELSE /\ inScope' = TRUE
            /\ UNCHANGED <<wsConn, nconn, callerPc, op>>
    /\ UNCHANGED otherVars
    /\ UNCHANGED <<maxsize, threadRef, connVars, threadVars, queueVars,
                   closeTarget, err, histVars>>

\* __exit__, reached by the body returning or raising: `self.close()`.
Exit ==
    /\ callerPc = "idle"
    /\ inScope
    /\ CloseBegin("exit")
    /\ UNCHANGED otherVars
    /\ UNCHANGED <<maxsize, refVars, remoteClosed, sent, threadVars,
                   queueVars, inScope, err, histVars>>

\* The exception of the caller's operation reaches the caller's code.
Unwind ==
    /\ callerPc = "raising"
    /\ callerPc' = "idle"
    /\ err' = "none"
    /\ op' = "none"
    /\ UNCHANGED otherVars
    /\ UNCHANGED <<maxsize, refVars, connVars, threadVars, queueVars,
                   closeTarget, inScope, histVars>>

\* ------------------------------------------------------ queue consumers
\* messages.get() with an item available.
Get ==
    /\ callerPc = "idle"
    /\ queue # <<>>
    /\ queue' = Tail(queue)
    /\ UNCHANGED otherVars
    /\ UNCHANGED <<maxsize, refVars, connVars, threadVars, unfinished,
                   callerVars, histVars>>

\* messages.task_done()
TaskDone ==
    /\ callerPc = "idle"
    /\ LET r == QueueTaskDone(unfinished) IN
       /\ unfinished' = r.unfinished
       /\ err' = r.exc
       /\ callerPc' = IF r.exc = "none" THEN "idle" ELSE "raising"
    /\ joinPc' = IF QueueTaskDoneNotifies(unfinished)
                 THEN NotifyAll(joinPc) ELSE joinPc
    /\ UNCHANGED clientVars
    /\ UNCHANGED <<maxsize, refVars, connVars, threadVars, queue, op,
                   closeTarget, inScope, histVars>>

\* A caller that keeps count of the items it has in hand: get() with an
\* item available.
Take ==
    /\ callerPc = "idle"
    /\ queue # <<>>
    /\ queue' = Tail(queue)
    /\ taken' = taken + 1
    /\ UNCHANGED otherVars
    /\ UNCHANGED <<maxsize, refVars, connVars, threadVars, unfinished,
                   callerVars, nullPuts>>

\* That caller reports an item in hand done: task_done(), once per item.
Done ==
    /\ callerPc = "idle"
    /\ taken > 0
    /\ taken' = taken - 1
    /\ LET r == QueueTaskDone(unfinished) IN
       /\ unfinished' = r.unfinished
       /\ err' = r.exc
       /\ callerPc' = IF r.exc = "none" THEN "idle" ELSE "raising"
    /\ joinPc' = IF QueueTaskDoneNotifies(unfinished)
                 THEN NotifyAll(joinPc) ELSE joinPc
    /\ UNCHANGED clientVars
    /\ UNCHANGED <<maxsize, refVars, connVars, threadVars, queue, op,
                   closeTarget, inScope, nullPuts>>

\* The reference is cleared from outside the class, the socket left open
\* (tests/test_subscription.py, test_no_connection).
ExternalClear ==
    /\ callerPc = "idle"
    /\ wsConn # None
    /\ wsConn' = None
    /\ nullPuts' = [t \in Threads |-> 0]
    /\ taken' = taken
    /\ UNCHANGED otherVars
    /\ UNCHANGED <<maxsize, threadRef, nconn, connVars, threadVars, queueVars,
                   callerVars>>

\* ------------------------------------------------------ the queue used directly
\* messages.put(item) by a user of the queue (unbounded queue).
Put(item) ==
    /\ callerPc = "idle"
    /\ Len(queue) < MaxItems
    /\ unfinished < MaxTasks
    /\ LET r == QueuePut(queue, unfinished, item, maxsize) IN
       /\ queue' = r.queue
       /\ unfinished' = r.unfinished
    /\ UNCHANGED otherVars
    /\ UNCHANGED <<maxsize, refVars, connVars, threadVars, callerVars,
                   histVars>>

\* messages.clear() called by a user of the queue; the whole body runs
\* under the queue's mutex.
Clear ==
    /\ callerPc = "idle"
    /\ LET r == QueueClear(queue, unfinished) IN
       /\ queue' = r.queue
       /\ unfinished' = r.unfinished
       /\ err' = r.exc
       /\ callerPc' = IF r.exc = "none" THEN "clear_ret" ELSE "raising"
    /\ op' = "clear"
    /\ joinPc' = IF QueueClearNotifies(queue, unfinished)
                 THEN NotifyAll(joinPc) ELSE joinPc
    /\ UNCHANGED clientVars
    /\ UNCHANGED <<maxsize, refVars, connVars, threadVars, closeTarget,
                   inScope, histVars>>

\* clear() has returned.
ClearReturn ==
    /\ callerPc = "clear_ret"
    /\ callerPc' = "idle"
    /\ op' = "none"
    /\ err' = err
    /\ UNCHANGED otherVars
    /\ UNCHANGED <<maxsize, refVars, connVars, threadVars, queueVars,
                   closeTarget, inScope, histVars>>

\* A thread calls messages.join(): it returns at once when nothing is
\* unfinished, else waits on all_tasks_done.
JoinBegin(w) ==
    /\ joinPc[w] = "none"
    /\ joinPc' = [joinPc EXCEPT ![w] = IF JoinMustWait(unfinished)
                                       THEN "waiting" ELSE "returned"]
    /\ UNCHANGED <<subscriptionVars, clientVars>>

\* A notified waiter has the mutex again and tests unfinished_tasks.
JoinWake(w) ==
    /\ joinPc[w] = "woken"
    /\ joinPc' = [joinPc EXCEPT ![w] = IF JoinMustWait(unfinished)
                                       THEN "waiting" ELSE "returned"]
    /\ UNCHANGED <<subscriptionVars, clientVars>>

\* ------------------------------------------------------ NtfyClient
\* Credentials a client is given: none, a (user, pass) pair, a token.
ClientCredentials ==
    {PyNone,
     [basic |-> Tuple(<<Str(<<"u">>), Str(<<"p">>)>>), bearer |-> PyNone],
     [basic |-> PyInt(123), bearer |-> PyNone],
     [basic |-> PyNone, bearer |-> Str(<<"t">>)]}

\* `self.credentials or Credentials()`
CredentialsOrDefault(c) ==
    IF c = PyNone THEN [basic |-> PyNone, bearer |-> PyNone] ELSE c

\* NtfyClient(base_url, default_topic, credentials): __post_init__ builds
\* the authentication header, which invalid credentials make raise.
NewClient(D, c) ==
    /\ client = NoClient
    /\ call' = [op |-> "NtfyClient", default_topic |-> D, credentials |-> c]
    /\ LET h == CredentialsGetHeader(CredentialsOrDefault(c)) IN
       IF h.exc # "none"
       THEN /\ ret' = [exc |-> h.exc, value |-> PyNone]
            /\ client' = client
       ELSE /\ ret' = [exc |-> "none", value |-> PyNone]
            /\ client' = [base_url |-> Str(<<"u">>), default_topic |-> D,
                          credentials |-> c]
    /\ requests' = <<>>
    /\ UNCHANGED <<pollVars, subscriptionVars, joinVars,
                 poolVars, objectVars>>

\* A publish() whose topic argument never replaces the message's topic.
ResolveTopicWithoutOverride(D, M, A, O) ==
    IF Truthy(M)
    THEN [exc |-> "none", topic |-> M]
    ELSE IF Truthy(A)
         THEN [exc |-> "none", topic |-> A]
         ELSE IF ~Truthy(D)
              THEN [exc |-> "ValueError", topic |-> PyNone]
              ELSE [exc |-> "none", topic |-> D]

\* publish(), `msg_topic, headers, kwargs = msg.get_args()` to
\* `msg_topic = self.default_topic`: the topic the request goes to, or the
\* ValueError. D: default_topic, M: the message's topic, A: the topic
\* argument, O: topic_override.
ResolveTopic(D, M, A, O) ==
    IF Truthy(M)
    THEN IF Truthy(A) /\ O
         THEN [exc |-> "none", topic |-> A]
         ELSE [exc |-> "none", topic |-> M]
    ELSE IF Truthy(A)
         THEN [exc |-> "none", topic |-> A]
         ELSE IF ~Truthy(D)
              THEN [exc |-> "ValueError", topic |-> PyNone]
              ELSE [exc |-> "none", topic |-> D]

\* A publish() that raises on 4xx and 5xx only.
PublishRaisesOnErrorStatus(status) == status >= 400

\* `if resp.status_code != 200: raise APIError(resp, False)`
PublishRaises(status) == status # 200

\* Status codes a server answers with.
StatusCodes == {200, 201, 204, 299, 301, 400, 404, 500}

\* What a topic parameter can be: None, the empty string, a name.
TopicValues(name) == {PyNone, Str(<<>>), Str(<<name>>)}

\* client.publish(msg, topic, topic_override); the server answers the
\* request, if one is sent, with `status`.
Publish(M, A, O, status) ==
    /\ client # NoClient
    /\ call' = [op |-> "publish", msg_topic |-> M, topic |-> A,
                topic_override |-> O, status |-> status]
    /\ LET r == ResolveTopic(client.default_topic, M, A, O) IN
       IF r.exc # "none"
       THEN /\ ret' = [exc |-> r.exc, value |-> PyNone]
            /\ requests' = <<>>
       ELSE /\ requests' = <<[method |-> "POST", topic |-> r.topic]>>
            /\ ret' = IF PublishRaises(status)
                      THEN [exc |-> "APIError", value |-> PyNone]
                      ELSE [exc |-> "none",
                            value |-> [status_code |-> status]]
    /\ UNCHANGED <<client, pollVars, subscriptionVars, joinVars,
                 poolVars, objectVars>>

\* A subscribe() without the isinstance test: tuple("abc") is the tuple of
\* the string's characters.
SubscribeTopicsWithoutStrTest(D, topics) ==
    IF topics = PyNone
    THEN IF D = PyNone
         THEN [exc |-> "ValueError", topics |-> PyNone]
         ELSE [exc |-> "none", topics |-> Tuple(<<D>>)]
    ELSE [exc |-> "none",
          topics |-> IF IsStr(topics)
                     THEN Tuple([i \in 1..Len(topics.s) |->
                                    Str(<<topics.s[i]>>)])
                     ELSE Tuple(topics.v)]

\* subscribe(): the `_topics` of the new subscription, or the ValueError.
SubscribeTopics(D, topics) ==
    IF topics = PyNone
    THEN IF D = PyNone
         THEN [exc |-> "ValueError", topics |-> PyNone]
         ELSE [exc |-> "none", topics |-> Tuple(<<D>>)]
    ELSE [exc |-> "none",
          topics |-> IF IsStr(topics) THEN Tuple(<<topics>>)
                     ELSE Tuple(topics.v)]

\* client.subscribe(topics, max_queue_size=mqs): a new NtfySubscription,
\* its _ws_conn and _thread at their default None.
Subscribe(topics, mqs) ==
    /\ client # NoClient
    /\ call' = [op |-> "subscribe", topics |-> topics,
                max_queue_size |-> mqs]
    /\ LET r == SubscribeTopics(client.default_topic, topics) IN
       ret' = IF r.exc # "none"
              THEN [exc |-> r.exc, value |-> PyNone]
              ELSE [exc |-> "none",
                    value |-> [base_url |-> client.base_url,
                               topics |-> r.topics,
                               credentials |-> client.credentials,
                               max_queue_size |-> mqs,
                               ws_conn |-> PyNone,
                               thread |-> PyNone]]
    /\ requests' = <<>>
    /\ UNCHANGED <<client, pollVars, subscriptionVars, joinVars,
                 poolVars, objectVars>>

\* Values given as `basic`: of the declared types and not.
BasicValues ==
    {PyNone, Str(<<>>), Str(<<"Y", "Q", "=", "=">>),
     Tuple(<<Str(<<"u", "s", "e", "r">>), Str(<<"p", "a", "s", "s">>)>>),
     Tuple(<<Str(<<"a">>), Str(<<"b">>)>>),
     Tuple(<<Str(<<>>), Str(<<>>)>>),
     Tuple(<<>>), Tuple(<<Str(<<"a">>)>>),
     Tuple(<<Str(<<"a">>), Str(<<"b">>), Str(<<"c">>)>>),
     Tuple(<<Str(<<"a">>), PyInt(1)>>),
     List(<<Str(<<"a">>), Str(<<"b">>)>>),
     PyInt(0), PyInt(123)}

\* Values given as `bearer`.
BearerValues == {PyNone, Str(<<>>), Str(<<"t", "o", "k">>)}

\* Credentials(basic, bearer).get_header()
GetHeader(c) ==
    /\ call' = [op |-> "get_header", credentials |-> c]
    /\ ret' = CredentialsGetHeader(c)
    /\ requests' = <<>>
    /\ UNCHANGED <<client, pollVars, subscriptionVars, joinVars,
                 poolVars, objectVars>>

\* ------------------------------------------------------ NtfyClient.poll
\* What a response line is: empty, or content as for a websocket frame.
LineKinds == FrameKinds \cup {"empty"}

\* The ReceivedMessage parsed from line i of the response.
LineMessage(i) == [line |-> i]

\* poll(), `if not topic:` to `topic = self.default_topic`
PollTopic(D, topic) ==
    IF ~Truthy(topic)
    THEN IF ~Truthy(D)
         THEN [exc |-> "ValueError", topic |-> PyNone]
         ELSE [exc |-> "none", topic |-> D]
    ELSE [exc |-> "none", topic |-> topic]

\* `if response.status_code != 200: raise APIError(response, True)`
PollRaises(status) == status # 200

\* A loop body without `if line:`: json.loads of an empty line raises.
PollLineOutcomeWithoutEmptyTest(kind) ==
    IF kind = "empty" THEN "JSONDecodeError"
    ELSE IF ParseFrame(kind) = "none" THEN "yield"
    ELSE ParseFrame(kind)

\* The body of `for line in response.iter_lines():` on a line: an empty
\* line is passed over, a line that parses is yielded, and the exception
\* of json.loads / from_json leaves the generator.
PollLineOutcome(kind) ==
    IF kind = "empty" THEN "skip"
    ELSE IF ParseFrame(kind) = "none" THEN "yield"
    ELSE ParseFrame(kind)

\* client.poll(topic): the generator is created, nothing of its body has
\* run.
PollCall(topic) ==
    /\ client # NoClient
    /\ poll.pc \notin {"running", "suspended"}
    /\ streams.opened < MaxPolls
    /\ poll' = [pc |-> "created", topic |-> topic, lines |-> <<>>,
                yielded |-> <<>>]
    /\ call' = [op |-> "poll", topic |-> topic]
    /\ ret' = [exc |-> "none", value |-> PyNone]
    /\ requests' = <<>>
    /\ UNCHANGED <<client, streams, subscriptionVars, joinVars,
                 poolVars, objectVars>>

\* First next() on the generator: the topic is resolved, the stream is
\* opened (the server answers with `status`) and the status is tested.
PollStart(status) ==
    /\ poll.pc = "created"
    /\ LET t == PollTopic(client.default_topic, poll.topic) IN
       IF t.exc # "none"
       THEN /\ poll' = [poll EXCEPT !.pc = "raised"]
            /\ ret' = [exc |-> t.exc, value |-> PyNone]
            /\ UNCHANGED <<requests, streams>>
       ELSE /\ requests' = <<[method |-> "GET", topic |-> t.topic]>>
            /\ IF PollRaises(status)
               THEN /\ poll' = [poll EXCEPT !.pc = "raised"]
                    /\ ret' = [exc |-> "APIError", value |-> PyNone]
                    /\ streams' = [streams EXCEPT !.opened = @ + 1]
               ELSE /\ poll' = [poll EXCEPT !.pc = "running"]
                    /\ ret' = ret
                    /\ streams' = [opened |-> streams.opened + 1,
                                   open |-> 1]
    /\ UNCHANGED <<client, call, subscriptionVars, joinVars,
                 poolVars, objectVars>>

\* A further next() on the generator.
PollNext ==
    /\ poll.pc = "suspended"
    /\ poll' = [poll EXCEPT !.pc = "running"]
    /\ UNCHANGED <<client, callVars, streams, subscriptionVars, joinVars,
                 poolVars, objectVars>>

\* The running generator reads the next line of the response.
PollLine(kind) ==
    /\ poll.pc = "running"
    /\ Len(poll.lines) < MaxLines
    /\ LET i == Len(poll.lines) + 1
           out == PollLineOutcome(kind) IN
       IF out = "skip"
       THEN /\ poll' = [poll EXCEPT !.lines = Append(@, kind)]
            /\ UNCHANGED <<ret, streams>>
       ELSE IF out = "yield"
       THEN /\ poll' = [poll EXCEPT !.pc = "suspended",
                                    !.lines = Append(@, kind),
                                    !.yielded = Append(@, LineMessage(i))]
            /\ ret' = [exc |-> "none", value |-> LineMessage(i)]
            /\ UNCHANGED streams
       ELSE /\ poll' = [poll EXCEPT !.pc = "raised",
                                    !.lines = Append(@, kind)]
            /\ ret' = [exc |-> out, value |-> PyNone]
            /\ streams' = [streams EXCEPT !.open = 0]
    /\ UNCHANGED <<client, call, requests, subscriptionVars, joinVars,
                 poolVars, objectVars>>

\* The response has no more lines: the loop and the `with` block end and
\* next() raises StopIteration.
PollEnd ==
    /\ poll.pc = "running"
    /\ poll' = [poll EXCEPT !.pc = "exhausted"]
    /\ ret' = [exc |-> "StopIteration", value |-> PyNone]
    /\ streams' = [streams EXCEPT !.open = 0]
    /\ UNCHANGED <<client, call, requests, subscriptionVars, joinVars,
                 poolVars, objectVars>>

\* The caller stops consuming: the generator is closed (GeneratorExit at
\* the yield leaves the `with` block) or was never started.
PollClose ==
    /\ poll.pc \in {"created", "suspended"}
    /\ poll' = [poll EXCEPT !.pc = "closed"]
    /\ streams' = [streams EXCEPT !.open = 0]
    /\ UNCHANGED <<client, callVars, subscriptionVars, joinVars,
                 poolVars, objectVars>>

\* ------------------------------------------------------------ URL
\* The pieces URL strings are made of, and the strings of up to
\* MaxUrlParts pieces.
UrlParts ==
    {<<"h", "t", "t", "p", ":", "/", "/", "h">>,
     <<"w", "s", ":", "/", "/", "h">>,
     <<"/", "p">>, <<"/">>, <<";", "x">>, <<"?">>, <<"#">>, <<"a">>}

RECURSIVE Concat(_)
Concat(ts) == IF Len(ts) = 0 THEN <<>> ELSE ts[1] \o Concat(Tail(ts))

UrlStrings ==
    {Concat(ts) : ts \in UNION {[1..n -> UrlParts] : n \in 0..MaxUrlParts}}

\* Arguments given to unparse().
EndpointValues ==
    {PyNone, Str(<<"e">>), Tuple(<<Str(<<"/", "e">>), Str(<<"f">>)>>)}
SchemeValues == {PyNone, Tuple(<<Str(<<"w", "s">>), Str(<<"w", "s", "s">>)>>)}

\* e = URL.parse(u), u one of the strings.
Parse ==
    /\ url = PyNone
    /\ \E u \in UrlStrings :
          /\ url' = URL_parse(u)
          /\ call' = [op |-> "URL.parse", url |-> Str(u)]
          /\ ret' = [exc |-> "none", value |-> url']
    /\ UNCHANGED <<client, requests, pollVars, poolVars, raw,
                   subscriptionVars, joinVars>>

\* e.unparse(endpoint, scheme)
Unparse(endpoint, scheme) ==
    /\ url # PyNone
    /\ call.op = "URL.parse"
    /\ call' = [op |-> "URL.unparse", endpoint |-> endpoint,
                scheme |-> scheme]
    /\ ret' = [exc |-> "none",
               value |-> Str(URL_unparse(url, endpoint, scheme))]
    /\ UNCHANGED <<client, requests, pollVars, poolVars, objectVars,
                   subscriptionVars, joinVars>>

\* URL.parse(s), s the string unparse() has just returned.
ParseUnparsed ==
    /\ call.op = "URL.unparse"
    /\ call' = [op |-> "URL.parse", url |-> ret.value]
    /\ ret' = [exc |-> "none", value |-> URL_parse(ret.value.s)]
    /\ UNCHANGED <<client, requests, pollVars, poolVars, objectVars,
                   subscriptionVars, joinVars>>

\* ---------------------------------------------------------- actions
\* Values given for the fields of an action: strings, booleans, mappings,
\* None for a field left unset, and a value of no serializable type.
LabelValues == {Str(<<"l">>), Str(<<"a", ",", "b">>)}
OptionalStrValues == {PyNone, Str(<<>>), Str(<<"v">>)}
OptionalBoolValues == {PyNone, Bool(TRUE), Bool(FALSE)}
OptionalMappingValues ==
    {PyNone, Dict(<<>>), Dict(<<<<<<"a">>, Str(<<"b">>)>>>>),
     Dict(<<<<<<"a">>, Str(<<"b">>)>>, <<<<"c">>, Str(<<"=">>)>>>>),
     PyInt(1)}

\* ViewAction(label, url, clear)
ViewAction(label, u, clear) ==
    [action |-> <<"v", "i", "e", "w">>,
     fields |-> <<<<<<"l", "a", "b", "e", "l">>, FALSE, label>>,
                  <<<<"u", "r", "l">>, FALSE, u>>,
                  <<<<"c", "l", "e", "a", "r">>, TRUE, clear>>>>]

\* BroadcastAction(label, intent, extras, clear)
BroadcastAction(label, intent, extras, clear) ==
    [action |-> <<"b", "r", "o", "a", "d", "c", "a", "s", "t">>,
     fields |-> <<<<<<"l", "a", "b", "e", "l">>, FALSE, label>>, <<<<"i", "n", "t", "e", "n", "t">>, TRUE, intent>>,
                  <<<<"e", "x", "t", "r", "a", "s">>, FALSE, extras>>, <<<<"c", "l", "e", "a", "r">>, TRUE, clear>>>>]

\* HTTPAction(label, url, method, headers, body, clear)
HTTPAction(label, u, method, headers, body, clear) ==
    [action |-> <<"h", "t", "t", "p">>,
     fields |-> <<<<<<"l", "a", "b", "e", "l">>, FALSE, label>>,
                  <<<<"u", "r", "l">>, FALSE, u>>,
                  <<<<"m", "e", "t", "h", "o", "d">>, TRUE, method>>, <<<<"h", "e", "a", "d", "e", "r", "s">>, FALSE, headers>>,
                  <<<<"b", "o", "d", "y">>, TRUE, body>>, <<<<"c", "l", "e", "a", "r">>, TRUE, clear>>>>]

\* The actions serialized.
Actions ==
    {ViewAction(l, Str(<<"u">>), c) :
        l \in LabelValues, c \in OptionalBoolValues}
    \cup {BroadcastAction(l, i, e, c) :
            l \in LabelValues, i \in OptionalStrValues,
            e \in OptionalMappingValues, c \in OptionalBoolValues}
    \cup {HTTPAction(Str(<<"l">>), Str(<<"u">>), m, h, b, c) :
            m \in {PyNone, Str(<<"P", "U", "T">>)},
            h \in {PyNone, Dict(<<<<<<"k">>, Str(<<"a", ";">>)>>>>)},
            b \in OptionalStrValues, c \in OptionalBoolValues}

\* The characters of the strings serialized, and the strings of up to
\* MaxStrLen of them.
StrChars == {"a", ",", ";", "=", "'", "quote", "backslash"}
Strings == UNION {[1..n -> StrChars] : n \in 0..MaxStrLen}

\* action.serialize()
Serialize(a) ==
    /\ call' = [op |-> "serialize", action |-> a]
    /\ ret' = ActionSerialize(a)
    /\ UNCHANGED <<client, requests, pollVars, poolVars, objectVars,
                   subscriptionVars, joinVars>>

\* _Action._default_serializer(None, s), s a string.
SerializeStr(s) ==
    /\ call' = [op |-> "_default_serializer", value |-> Str(s)]
    /\ ret' = The({[exc |-> r.exc, value |-> Str(r.value)] :
                     r \in {DefaultSerializer(PyNone, Str(s))}})
    /\ UNCHANGED <<client, requests, pollVars, poolVars, objectVars,
                   subscriptionVars, joinVars>>

\* ------------------------------------------------------------ Message
\* What the templating and filename parameters can be.
TemplatingValues == {PyNone, Bool(FALSE), Bool(TRUE)}
FilenameValues == {PyNone, Str(<<>>), Str(<<"f">>)}

\* A Message that refuses a filename only with templating switched on.
MessageRaisesWhenTemplating(templating, filename) ==
    templating = Bool(TRUE) /\ filename # PyNone

\* `if self.templating is not None and self.filename is not None`
MessageRaises(templating, filename) ==
    templating # PyNone /\ filename # PyNone

\* Message(templating=..., filename=...): the dataclass's __init__ stores
\* the fields and calls __post_init__.
NewMessage(templating, filename) ==
    /\ call' = [op |-> "Message", templating |-> templating,
                filename |-> filename]
    /\ ret' = IF MessageRaises(templating, filename)
              THEN [exc |-> "ValueError", value |-> PyNone]
              ELSE [exc |-> "none",
                    value |-> [t |-> "Message", templating |-> templating,
                               filename |-> filename]]
    /\ requests' = <<>>
    /\ UNCHANGED <<client, pollVars, poolVars, objectVars,
                   subscriptionVars, joinVars>>

\* ------------------------------------------------- the connection pool
\* The pools created so far, by their number.
Pools == 1..Len(isClosed)

\* The caller creates a pool: httpx.Client().
NewPool ==
    /\ Len(isClosed) < MaxPools
    /\ isClosed' = Append(isClosed, FALSE)
    /\ call' = [op |-> "httpx.Client"]
    /\ ret' = [exc |-> "none", value |-> PyInt(Len(isClosed) + 1)]
    /\ requests' = <<>>
    /\ UNCHANGED <<client, httpClient, withDepth, pollVars, objectVars,
                   subscriptionVars, joinVars>>

\* The caller closes a pool: httpx.Client.close().
PoolClose(p) ==
    /\ p \in Pools
    /\ isClosed' = [isClosed EXCEPT ![p] = TRUE]
    /\ call' = [op |-> "httpx.Client.close", pool |-> p]
    /\ ret' = [exc |-> "none", value |-> PyNone]
    /\ requests' = <<>>
    /\ UNCHANGED <<client, httpClient, withDepth, pollVars, objectVars,
                   subscriptionVars, joinVars>>

\* connect(): `client or httpx.Client()`, the pool and the table of pools
\* after it. An httpx.Client is truthy, closed or not.
ConnectPool(given, closed) ==
    IF given # None
    THEN [pool |-> given, closed |-> closed]
    ELSE [pool |-> Len(closed) + 1, closed |-> Append(closed, FALSE)]

\* close(): the pool reference and the table of pools after it.
ClosePool(ref, closed) ==
    [pool |-> None,
     closed |-> IF ref # None /\ ~closed[ref]
                THEN [closed EXCEPT ![ref] = TRUE]
                ELSE closed]

\* An __enter__ that connects whatever the client holds.
ClientEnterAlwaysConnects(ref) == TRUE

\* __enter__: `if not self._http_client`
ClientEnterConnects(ref) == ref = None

\* client.connect(client=given)
ClientConnect(given) ==
    /\ client # NoClient
    /\ given \in Pools \cup {None}
    /\ given = None => Len(isClosed) < MaxPools
    /\ LET c == ConnectPool(given, isClosed) IN
       /\ httpClient' = c.pool
       /\ isClosed' = c.closed
    /\ call' = [op |-> "connect", client |-> given]
    /\ ret' = [exc |-> "none", value |-> PyNone]
    /\ requests' = <<>>
    /\ UNCHANGED <<client, withDepth, pollVars, objectVars,
                   subscriptionVars, joinVars>>

\* client.close()
ClientClose ==
    /\ client # NoClient
    /\ LET c == ClosePool(httpClient, isClosed) IN
       /\ httpClient' = c.pool
       /\ isClosed' = c.closed
    /\ call' = [op |-> "close"]
    /\ ret' = [exc |-> "none", value |-> PyNone]
    /\ requests' = <<>>
    /\ UNCHANGED <<client, withDepth, pollVars, objectVars,
                   subscriptionVars, joinVars>>

\* `with client:` is entered: __enter__.
ClientEnter ==
    /\ client # NoClient
    /\ withDepth < MaxNesting
    /\ ClientEnterConnects(httpClient) => Len(isClosed) < MaxPools
    /\ LET c == IF ClientEnterConnects(httpClient)
                THEN ConnectPool(None, isClosed)
                ELSE [pool |-> httpClient, closed |-> isClosed] IN
       /\ httpClient' = c.pool
       /\ isClosed' = c.closed
    /\ withDepth' = withDepth + 1
    /\ call' = [op |-> "__enter__"]
    /\ ret' = [exc |-> "none", value |-> PyNone]
    /\ requests' = <<>>
    /\ UNCHANGED <<client, pollVars, objectVars, subscriptionVars, joinVars>>

\* `with client:` is left, its body having returned or raised: __exit__
\* closes and returns False.
ClientExit ==
    /\ withDepth > 0
    /\ LET c == ClosePool(httpClient, isClosed) IN
       /\ httpClient' = c.pool
       /\ isClosed' = c.closed
    /\ withDepth' = withDepth - 1
    /\ call' = [op |-> "__exit__"]
    /\ ret' = [exc |-> "none", value |-> Bool(FALSE)]
    /\ requests' = <<>>
    /\ UNCHANGED <<client, pollVars, objectVars, subscriptionVars, joinVars>>

\* ------------------------------------------------- received messages
\* The discriminators of the action classes.
VIEW == Str(<<"v", "i", "e", "w">>)
BROADCAST == Str(<<"b", "r", "o", "a", "d", "c", "a", "s", "t">>)
HTTP == Str(<<"h", "t", "t", "p">>)

\* A JSON object is a dict whose keys are names; its values are shared
\* with whoever holds the object.
DictHas(d, k) == \E i \in 1..Len(d.items) : d.items[i][1] = k
DictGet(d, k) ==
    d.items[CHOOSE i \in 1..Len(d.items) : d.items[i][1] = k][2]
DictKeys(d) == {d.items[i][1] : i \in 1..Len(d.items)}

\* d.pop(k), the dict after it
DictPop(d, k) == Dict(SelectSeq(d.items, LAMBDA it : it[1] # k))

\* The dataclasses: fields without a default, fields with one, and the
\* wrapper each annotated field is given.
ReceivedViewAction ==
    [name |-> "ReceivedViewAction",
     required |-> {"id", "label", "url", "clear"},
     optional |-> {},
     context |-> {}]
ReceivedBroadcastAction ==
    [name |-> "ReceivedBroadcastAction",
     required |-> {"id", "label", "clear"},
     optional |-> {"intent", "extras"},
     context |-> {}]
ReceivedHTTPAction ==
    [name |-> "ReceivedHTTPAction",
     required |-> {"id", "label", "url", "clear"},
     optional |-> {"method", "headers", "body"},
     context |-> {<<"method", "HTTPMethod">>}]
ReceivedMessage ==
    [name |-> "_ReceivedMessage",
     required |-> {"id", "time", "event", "topic"},
     optional |-> {"message", "expires", "title", "tags", "priority", "click",
                   "actions", "attachment", "icon", "content_type"},
     context |-> {<<"event", "Event">>, <<"tags", "_parse_tags">>,
                  <<"priority", "Priority">>,
                  <<"actions", "_parse_actions">>,
                  <<"attachment", "_ReceivedAttachment.from_json">>}]

\* The action classes by discriminator.
ActionClasses ==
    {<<VIEW, ReceivedViewAction>>,
     <<BROADCAST, ReceivedBroadcastAction>>,
     <<HTTP, ReceivedHTTPAction>>}

\* cls(**d): TypeError on a keyword that is no field and on a field
\* without default that is not given.
ClassNew(cls, d) ==
    IF /\ DictKeys(d) \subseteq cls.required \cup cls.optional
       /\ cls.required \subseteq DictKeys(d)
    THEN [exc |-> "none", value |-> [t |-> cls.name, fields |-> d.items]]
    ELSE [exc |-> "TypeError", value |-> PyNone]

\* One element of _parse_actions: `a.pop("action")` takes the key out of
\* the object given, the table of classes is indexed with it, and the
\* class's from_json gets what is left of the object. `obj` is the object
\* afterwards.
ParseAction(a) ==
    IF ~DictHas(a, "action")
    THEN [exc |-> "KeyError", value |-> PyNone, obj |-> a]
    ELSE The({IF \E c \in ActionClasses : c[1] = x[1]
              THEN The({[exc |-> r.exc, value |-> r.value, obj |-> x[2]] :
                        r \in {ClassNew(
                                 The({c[2] : c \in {c \in ActionClasses :
                                                      c[1] = x[1]}}),
                                 x[2])}})
              ELSE [exc |-> "KeyError", value |-> PyNone, obj |-> x[2]] :
              x \in {<<DictGet(a, "action"), DictPop(a, "action")>>}})

\* _parse_actions on the elements i.. of the list: the tuple is built
\* element by element and the first exception ends it.
RECURSIVE ParseActions(_, _)
ParseActions(actions, i) ==
    IF i > Len(actions)
    THEN [exc |-> "none", value |-> <<>>, objs |-> <<>>]
    ELSE The({IF one.exc # "none"
              THEN [exc |-> one.exc, value |-> <<>>,
                    objs |-> <<one.obj>>
                             \o SubSeq(actions, i + 1, Len(actions))]
              ELSE The({[exc |-> rest.exc,
                         value |-> <<one.value>> \o rest.value,
                         objs |-> <<one.obj>> \o rest.objs] :
                        rest \in {ParseActions(actions, i + 1)}}) :
              one \in {ParseAction(actions[i])}})

\* A wrapper applied to a value: the value it returns and the value
\* itself afterwards. The enum and attachment wrappers read only.
ApplyWrapper(wrapper, v) ==
    IF wrapper = "_parse_actions"
    THEN The({[exc |-> r.exc, value |-> Tuple(r.value),
               after |-> List(r.objs)] :
              r \in {ParseActions(v.v, 1)}})
    ELSE [exc |-> "none", value |-> [t |-> wrapper, of |-> v], after |-> v]

\* The loop of from_json over the items i..: `_data[k] = wrapper(v)` for a
\* key with a wrapper. `wrapped` are the items of _data, `after` those of
\* data.
RECURSIVE WrapItems(_, _, _)
WrapItems(cls, items, i) ==
    IF i > Len(items)
    THEN [exc |-> "none", wrapped |-> <<>>, after |-> <<>>]
    ELSE IF ~\E c \in cls.context : c[1] = items[i][1]
    THEN The({[exc |-> rest.exc,
               wrapped |-> <<items[i]>> \o rest.wrapped,
               after |-> <<items[i]>> \o rest.after] :
              rest \in {WrapItems(cls, items, i + 1)}})
    ELSE The({IF w.exc # "none"
              THEN [exc |-> w.exc, wrapped |-> <<>>,
                    after |-> <<<<items[i][1], w.after>>>>
                              \o SubSeq(items, i + 1, Len(items))]
              ELSE The({[exc |-> rest.exc,
                         wrapped |-> <<<<items[i][1], w.value>>>>
                                     \o rest.wrapped,
                         after |-> <<<<items[i][1], w.after>>>>
                                   \o rest.after] :
                        rest \in {WrapItems(cls, items, i + 1)}}) :
              w \in {ApplyWrapper(
                       The({c[2] : c \in {c \in cls.context :
                                            c[1] = items[i][1]}}),
                       items[i][2])}})

\* WrappingDataclass.from_json(data) for _ReceivedMessage: what it returns
\* or raises, and the object given afterwards.
FromJson(data) ==
    The({IF w.exc # "none"
         THEN [exc |-> w.exc, value |-> PyNone, data |-> Dict(w.after)]
         ELSE The({[exc |-> r.exc, value |-> r.value,
                    data |-> Dict(w.after)] :
                   r \in {ClassNew(ReceivedMessage, Dict(w.wrapped))}}) :
         w \in {WrapItems(ReceivedMessage, data.items, 1)}})

\* Action objects a server sends, well-formed and not.
ActionObjects ==
    {Dict(<<<<"id", Str(<<"a">>)>>, <<"action", VIEW>>,
            <<"label", Str(<<"l">>)>>, <<"url", Str(<<"u">>)>>,
            <<"clear", Bool(FALSE)>>>>),
     Dict(<<<<"id", Str(<<"b">>)>>, <<"action", BROADCAST>>,
            <<"label", Str(<<"l">>)>>, <<"clear", Bool(TRUE)>>>>),
     Dict(<<<<"id", Str(<<"c">>)>>, <<"action", Str(<<"x">>)>>,
            <<"label", Str(<<"l">>)>>, <<"clear", Bool(FALSE)>>>>),
     Dict(<<<<"id", Str(<<"d">>)>>, <<"label", Str(<<"l">>)>>,
            <<"url", Str(<<"u">>)>>, <<"clear", Bool(FALSE)>>>>),
     Dict(<<<<"action", HTTP>>, <<"label", Str(<<"l">>)>>>>)}

\* Lists of at most n of them.
ActionLists(n) ==
    UNION {[1..k -> ActionObjects] : k \in 0..n}

\* The objects json.loads returns for the frames of a server.
RawObjects ==
    {Dict(<<<<"id", Str(<<"i">>)>>, <<"time", PyInt(1)>>,
            <<"event", Str(<<"m">>)>>, <<"topic", Str(<<"t">>)>>>>
          \o title \o actions) :
       title \in {<<>>, <<<<"title", Str(<<"h">>)>>>>},
       actions \in {<<>>} \cup {<<<<"actions", List(l)>>>> :
                                 l \in ActionLists(MaxActions)}}

\* data = json.loads(raw)
Loads(obj) ==
    /\ raw' = obj
    /\ call' = [op |-> "json.loads"]
    /\ ret' = [exc |-> "none", value |-> obj]
    /\ requests' = <<>>
    /\ UNCHANGED <<client, url, pollVars, poolVars, subscriptionVars,
                   joinVars>>

\* _ReceivedMessage.from_json(data), on the object last loaded
ReceivedFromJson ==
    /\ raw # PyNone
    /\ call' = [op |-> "from_json", data |-> raw]
    /\ LET r == FromJson(raw) IN
       /\ ret' = [exc |-> r.exc, value |-> r.value]
       /\ raw' = r.data
    /\ requests' = <<>>
    /\ UNCHANGED <<client, url, pollVars, poolVars, subscriptionVars,
                   joinVars>>

\* ------------------------------------------------------ specification
Next ==
    \/ \E c \in Conns : RemoteClose(c)
    \/ \E t \in Threads : ThreadStep(t)
    \/ \E t \in Threads, k \in FrameKinds : ThreadRecvFrame(t, k)
    \/ Connect
    \/ ConnectClear
    \/ Close
    \/ CloseNull
    \/ \E bodyRaised \in BOOLEAN : CloseJoin(bodyRaised)
    \/ Enter
    \/ Exit
    \/ Unwind
    \/ Get
    \/ TaskDone

Spec == Init /\ [][Next]_vars

\* recv() returns a frame, of the fewer frames the remote sends where the
\* scheduling is looked at.
ThreadRecvFrameFair(t, k) ==
    /\ sent < MaxFairFrames
    /\ ThreadRecvFrame(t, k)

\* The same with the reference cleared from outside, and the scheduling:
\* a thread that can take a step takes it, and so does the caller inside
\* connect() and close(). Nothing makes the remote send or close.
NextTampered ==
    \/ \E c \in Conns : RemoteClose(c)
    \/ \E t \in Threads : ThreadStep(t)
    \/ \E t \in Threads, k \in FrameKinds : ThreadRecvFrameFair(t, k)
    \/ Connect
    \/ ConnectClear
    \/ Close
    \/ CloseNull
    \/ \E bodyRaised \in BOOLEAN : CloseJoin(bodyRaised)
    \/ Enter
    \/ Exit
    \/ Unwind
    \/ Get
    \/ TaskDone
    \/ ExternalClear

SpecFair ==
    /\ Init
    /\ [][NextTampered]_vars
    /\ \A t \in Threads : WF_vars(ThreadStep(t))
    /\ WF_vars(ConnectClear)
    /\ WF_vars(CloseNull)
    /\ WF_vars(\E bodyRaised \in BOOLEAN : CloseJoin(bodyRaised))
    /\ WF_vars(Unwind)


\* A ClearableQueue used on its own (tests/test_internals_queue.py): an
\* unbounded queue, callers that put, get, mark done and clear, and threads
\* that join. A woken waiter gets the mutex in the end.
InitQueue == Init /\ maxsize = 0

NextQueue ==
    \/ \E item \in 1..2 : Put(item)
    \/ Get
    \/ TaskDone
    \/ Unwind
    \/ Clear
    \/ ClearReturn
    \/ \E w \in Waiters : JoinBegin(w)
    \/ \E w \in Waiters : JoinWake(w)

SpecQueue ==
    /\ InitQueue
    /\ [][NextQueue]_vars
    /\ \A w \in Waiters : WF_vars(JoinWake(w))

\* A client publishing and creating subscriptions, and Credentials asked
\* for their header.
NextClient ==
    \/ \E D \in TopicValues("d"), c \in ClientCredentials : NewClient(D, c)
    \/ \E M \in TopicValues("m"), A \in TopicValues("a"), O \in BOOLEAN,
          status \in StatusCodes : Publish(M, A, O, status)
    \/ \E topics \in TopicValues("t")
                       \cup {Str(<<"t", "v">>), Tuple(<<>>),
                             Tuple(<<Str(<<"t">>), Str(<<"v">>)>>),
                             List(<<Str(<<"t">>), Str(<<"v">>)>>)},
          mqs \in 0..1 : Subscribe(topics, mqs)
    \/ \E b \in BasicValues, r \in BearerValues :
          GetHeader([basic |-> b, bearer |-> r])

SpecClient == Init /\ [][NextClient]_vars

\* A client polling.
NextPoll ==
    \/ \E D \in TopicValues("d"), c \in ClientCredentials : NewClient(D, c)
    \/ \E topic \in TopicValues("t") : PollCall(topic)
    \/ \E status \in StatusCodes : PollStart(status)
    \/ PollNext
    \/ \E kind \in LineKinds : PollLine(kind)
    \/ PollEnd
    \/ PollClose

SpecPoll == Init /\ [][NextPoll]_vars

\* URL strings parsed, turned back into strings and parsed again.
NextURL ==
    \/ Parse
    \/ \E endpoint \in EndpointValues, scheme \in SchemeValues :
          Unparse(endpoint, scheme)
    \/ ParseUnparsed

SpecURL == Init /\ [][NextURL]_vars

\* Actions serialized, and strings given to the default serializer.
NextActions ==
    \/ \E a \in Actions : Serialize(a)
    \/ \E s \in Strings : SerializeStr(s)

SpecActions == Init /\ [][NextActions]_vars

\* Frames decoded and parsed, any number of times each.
NextReceived ==
    \/ \E obj \in RawObjects : Loads(obj)
    \/ ReceivedFromJson

SpecReceived == Init /\ [][NextReceived]_vars

\* The subscription with callers that get, report done once per item
\* got, clear the queue and reconnect, while the consumer thread puts.
NextAccounting ==
    \/ \E c \in Conns : RemoteClose(c)
    \/ \E t \in Threads : ThreadStep(t)
    \/ \E t \in Threads, k \in FrameKinds : ThreadRecvFrame(t, k)
    \/ Connect
    \/ ConnectClear
    \/ Close
    \/ CloseNull
    \/ \E bodyRaised \in BOOLEAN : CloseJoin(bodyRaised)
    \/ Take
    \/ Done
    \/ Clear
    \/ ClearReturn

SpecAccounting == Init /\ [][NextAccounting]_vars

\* Messages constructed, and a client's connection pool connected and
\* closed, by name and by `with`, with pools of the caller's own.
NextPool ==
    \/ \E D \in TopicValues("d"), c \in ClientCredentials : NewClient(D, c)
    \/ \E templating \in TemplatingValues, filename \in FilenameValues :
          NewMessage(templating, filename)
    \/ NewPool
    \/ \E p \in 1..MaxPools : PoolClose(p)
    \/ \E given \in (1..MaxPools) \cup {None} : ClientConnect(given)
    \/ ClientClose
    \/ ClientEnter
    \/ ClientExit

SpecPool == Init /\ [][NextPool]_vars

\* =================================================================
\* Claims
\* =================================================================

\* The step of thread t that ends its put.
PutStep(t) == tpc[t] = "put" /\ tpc'[t] # "put"

\* The message thread t is putting.
PutMsg(t) == [conn |-> tconn[t], seq |-> tframe[t]]

\* C1: with max_queue_size = k > 0, a valid frame that arrives while the
\* queue holds k messages is discarded, the loop goes on (the thread stays
\* alive, no exception leaves it), and a valid frame that finds room is
\* enqueued.
C1_FullQueueDropsAndContinues ==
    [][\A t \in Threads :
         (PutStep(t) /\ maxsize > 0) =>
            /\ tpc'[t] = "check"
            /\ queue' = IF Len(queue) >= maxsize THEN queue
                        ELSE Append(queue, PutMsg(t))]_vars

\* C2: with capacity k > 0 the queue never holds more than k messages; a
\* message offered to a full queue leaves the queue as it was (the oldest
\* stay, the newest is dropped) and the put raises nothing.
C2_OverflowKeepsOldestNoException ==
    /\ [](maxsize > 0 => Len(queue) <= maxsize)
    /\ [][\A t \in Threads :
            (PutStep(t) /\ maxsize > 0 /\ Len(queue) >= maxsize) =>
               (queue' = queue /\ tpc'[t] # "raised")]_vars

\* C3: on an unbounded subscription a frame that fails JSON decoding, or
\* fails _ReceivedMessage construction with a type, attribute or value
\* error, enqueues nothing and leaves the thread in its loop; every valid
\* frame is enqueued, at the tail, and the loop goes on.
C3_BadFramesAreSkipped ==
    [][\A t \in Threads :
         maxsize = 0 =>
            /\ \A k \in {"badjson", "badfield"} :
                  ThreadRecvFrame(t, k) =>
                     (queue' = queue /\ tpc'[t] = "check")
            /\ ThreadRecvFrame(t, "valid") => tpc'[t] = "put"
            /\ PutStep(t) =>
                  (queue' = Append(queue, PutMsg(t)) /\ tpc'[t] = "check")]_vars

\* C3 witness: one connection, unbounded; frames 1 and 3 are in the queue
\* and frame 2 is not, though nothing was taken from behind frame 1: frame
\* 2 was skipped and the thread went on to enqueue frame 3.
C3_Witness ==
    /\ maxsize = 0
    /\ nconn = 1
    /\ queue = <<[conn |-> 1, seq |-> 1], [conn |-> 1, seq |-> 3]>>
    /\ tpc[1] = "check"

\* C4: no content of a frame ends the consumer thread: whatever a received
\* frame holds (an unrecognized or missing `action` discriminator included),
\* the frame is dropped or enqueued and the loop goes on. Stated for the
\* unbounded queue, where the put cannot fail.
C4_NoFrameContentEndsThread ==
    [][\A t \in Threads, k \in FrameKinds :
         (maxsize = 0 /\ ThreadRecvFrame(t, k)) =>
            tpc'[t] \in {"check", "put"}]_vars

\* C5: a Subscription has at most one live consumer thread at a time.
C5_AtMostOneLiveThread ==
    Cardinality({t \in Threads : Alive(t)}) <= 1


\* C6 as claimed: a recv that raises ConnectionClosed ends the thread; while
\* the reference is null a thread enqueues at most one message; and once
\* the reference is null every live thread eventually exits (unless a
\* connect() sets the reference again).
C6_ExitsOnClosedOrNull ==
    /\ [][\A t \in Threads : ThreadRecvClosed(t) => tpc'[t] = "dead"]_vars
    /\ [](\A t \in Threads : wsConn = None => nullPuts[t] <= 1)
    /\ \A t \in Threads :
          (wsConn = None /\ Alive(t)) ~> (~Alive(t) \/ wsConn # None)

\* C6 amended: the same, the exit in the null case being promised only to a
\* thread whose pending recv returns (a frame arrives or the connection
\* closes): nothing interrupts a recv blocked on an open, silent socket.
C6_ExitsOnClosedOrNullIfRecvReturns ==
    /\ [][\A t \in Threads : ThreadRecvClosed(t) => tpc'[t] = "dead"]_vars
    /\ [](\A t \in Threads : wsConn = None => nullPuts[t] <= 1)
    /\ \A t \in Threads :
          []<>(tpc[t] # "recv") =>
             ((wsConn = None /\ Alive(t)) ~> (~Alive(t) \/ wsConn # None))

\* C6 witness: the reference was cleared from outside (no close() was made
\* on the thread's socket), the thread enqueued the one message its recv
\* was waiting for, and is over.
C6_Witness ==
    \E t \in Threads :
       /\ wsConn = None
       /\ tpc[t] = "dead"
       /\ nullPuts[t] = 1
       /\ closeCalls[t] = 0
       /\ ~remoteClosed[t]

\* close() was called with a connection held whose consumer thread
\* connect() had started.
ClosingConnected ==
    /\ callerPc \in {"close_null", "close_join"}
    /\ closeTarget # None
    /\ threadRef = closeTarget

\* C7: from the Connected state close() eventually returns, and when it
\* returns the socket has been closed, the reference is null and the
\* consumer thread is not alive.
C7_CloseReturnsClosed ==
    /\ ClosingConnected ~> (callerPc \notin {"close_null", "close_join"})
    /\ [][(ClosingConnected /\ callerPc' \notin {"close_null", "close_join"}) =>
            /\ closeCalls'[closeTarget] >= 1
            /\ wsConn' = None
            /\ tpc'[threadRef'] = "dead"]_vars

\* C7 witness: close() has returned after closing an open socket its thread
\* was reading.
C7_Witness ==
    /\ callerPc = "idle"
    /\ wsConn = None
    /\ threadRef # None
    /\ tpc[threadRef] = "dead"
    /\ closeCalls[threadRef] = 1
    /\ ~remoteClosed[threadRef]

\* C8: close() on a subscription that holds no connection (Idle, or closed
\* before) closes no socket and changes nothing of the connection, the
\* threads or the queue; no socket is ever closed twice.
C8_CloseIdempotent ==
    /\ [](\A c \in Conns : closeCalls[c] <= 1)
    /\ [][(callerPc = "idle" /\ op' \in {"close", "exit"} /\ wsConn = None) =>
            /\ callerPc' = "close_join"
            /\ closeTarget' = None
            /\ UNCHANGED <<refVars, connVars, threadVars, queueVars>>]_vars
    /\ [][(callerPc = "close_join" /\ closeTarget = None /\ callerPc' # "close_join") =>
            UNCHANGED <<refVars, connVars, threadVars, queueVars>>]_vars

\* C8 witness: a second close() is under way on a subscription whose
\* connection an earlier close() closed.
C8_Witness ==
    /\ op = "close"
    /\ callerPc = "close_join"
    /\ closeTarget = None
    /\ wsConn = None
    /\ nconn >= 1
    /\ closeCalls[nconn] = 1

\* C9: __enter__ calls connect() only if no connection is held (one held is
\* kept); __exit__ always runs close(), and when it is over the reference is
\* null and an exception of the body, and only that, goes on to the caller.
C9_ScopedResource ==
    /\ [][(callerPc = "idle" /\ ~inScope /\ (inScope' \/ op' = "enter")) =>
            IF wsConn = None
            THEN wsConn' = nconn + 1 /\ nconn' = nconn + 1
                 /\ callerPc' = "conn_clear"
            ELSE inScope' /\ UNCHANGED <<refVars, connVars, threadVars,
                                        queueVars, callerPc>>]_vars
    /\ [][(callerPc = "idle" /\ inScope /\ op' = "exit") =>
            /\ callerPc' \in {"close_null", "close_join"}
            /\ wsConn # None => closeCalls'[wsConn] = closeCalls[wsConn] + 1]_vars
    /\ [][\A b \in BOOLEAN :
            (op = "exit" /\ CloseJoin(b)) =>
               /\ wsConn' = None
               /\ ~inScope'
               /\ callerPc' = IF b THEN "raising" ELSE "idle"]_vars

\* C9 witness: the body raised, close() has closed the connection, and the
\* body's exception is on its way to the caller.
C9_Witness ==
    /\ callerPc = "raising"
    /\ err = "BodyError"
    /\ ~inScope
    /\ wsConn = None
    /\ nconn >= 1
    /\ closeCalls[nconn] = 1

\* C10: after connect() has returned, the queue holds only messages received
\* on the connection it set.
C10_QueueHoldsOnlyNewConnection ==
    (callerPc = "idle" /\ wsConn # None /\ threadRef = wsConn) =>
       \A i \in 1..Len(queue) : queue[i].conn = wsConn


\* The step in which connect() runs messages.clear() and starts the thread,
\* or is left by clear()'s exception.
ConnectClearStep == callerPc = "conn_clear" /\ callerPc' # "conn_clear"

\* C11 as claimed: connect() leaves the queue empty with an unfinished count
\* of zero, does not raise, and returns with the connection held and its
\* consumer thread alive, whatever the accounting was before.
C11_ConnectResetsAccountingToZero ==
    [][ConnectClearStep =>
          /\ queue' = <<>>
          /\ unfinished' = 0
          /\ callerPc' = "idle"
          /\ wsConn' # None
          /\ threadRef' = wsConn'
          /\ tpc'[threadRef'] \in {"check", "call", "recv", "put"}]_vars

\* C11 amended: connect() empties the queue and leaves the unfinished count
\* at (unfinished - length), the items taken and not yet marked done, and
\* returns Connected with a live consumer thread; when that difference is
\* negative it raises ValueError with the new connection stored, no thread
\* started and the queue and the count as they were.
C11_ConnectKeepsTakenItemsCount ==
    [][ConnectClearStep =>
          IF unfinished - Len(queue) >= 0
          THEN /\ queue' = <<>>
               /\ unfinished' = unfinished - Len(queue)
               /\ callerPc' = "idle"
               /\ wsConn' # None
               /\ threadRef' = wsConn'
               /\ tpc'[threadRef'] = "check"
          ELSE /\ callerPc' = "raising"
               /\ err' = "ValueError"
               /\ UNCHANGED <<queue, unfinished, wsConn, threadRef, tpc>>]_vars

\* C11 witness: a second connect() has returned and its thread has not run
\* yet; an item taken earlier and never marked done is still counted.
C11_Witness ==
    /\ callerPc = "idle"
    /\ nconn = 2
    /\ wsConn = 2
    /\ threadRef = 2
    /\ tpc[2] = "check"
    /\ ~traw[2]
    /\ tpc[1] = "dead"
    /\ queue = <<>>
    /\ unfinished = 1


\* C12: clear() with unfinished - length >= 0 leaves the queue empty and
\* the unfinished count equal to that difference; with a negative
\* difference it raises ValueError and changes neither.
C12_ClearKeepsTakenItemsOrRaises ==
    [][Clear =>
          IF unfinished - Len(queue) >= 0
          THEN /\ queue' = <<>>
               /\ unfinished' = unfinished - Len(queue)
               /\ err' = "none"
               /\ callerPc' = "clear_ret"
          ELSE /\ err' = "ValueError"
               /\ callerPc' = "raising"
               /\ UNCHANGED <<queue, unfinished>>]_vars

\* C12 witness: clear() is raising ValueError on a queue of two items with
\* nothing unfinished (both were marked done without being taken); the
\* items are still there.
C12_Witness ==
    /\ op = "clear"
    /\ callerPc = "raising"
    /\ err = "ValueError"
    /\ Len(queue) = 2
    /\ unfinished = 0

\* C13: a clear() that leaves no unfinished work wakes every thread waiting
\* in join(), and a woken thread returns unless new work was put in the
\* meantime; a clear() that leaves taken items unfinished, or raises, wakes
\* nobody, and no waiter returns while work is unfinished.
C13_ClearWakesJoiners ==
    /\ [][Clear =>
            \A w \in Waiters :
               IF unfinished - Len(queue) = 0 /\ joinPc[w] = "waiting"
               THEN joinPc'[w] = "woken"
               ELSE joinPc'[w] = joinPc[w]]_vars
    /\ [][\A w \in Waiters :
            (joinPc[w] # "returned" /\ joinPc'[w] = "returned") =>
               unfinished = 0]_vars
    /\ \A w \in Waiters :
          (joinPc[w] = "woken") ~> (joinPc[w] = "returned" \/ unfinished # 0)

\* C13 witness: clear() has just returned having dropped the only
\* unfinished item, and a thread that was waiting in join() is woken.
C13_Witness ==
    /\ op = "clear"
    /\ callerPc = "clear_ret"
    /\ unfinished = 0
    /\ \E w \in Waiters : joinPc[w] = "woken"


\* The second connection is being set up on a subscription whose first
\* connection close() has closed.
Reconnecting == nconn = 2 /\ wsConn = 2 /\ closeCalls[1] >= 1

\* C14 as claimed: after close(), another connect() returns with the new
\* connection held, a new live consumer thread and an empty queue, and a
\* message the new thread receives is enqueued (the queue having room).
C14_ReconnectAfterClose ==
    /\ [][(Reconnecting /\ ConnectClearStep) =>
            /\ callerPc' = "idle"
            /\ wsConn' = 2
            /\ threadRef' = 2
            /\ tpc'[2] = "check"
            /\ queue' = <<>>]_vars
    /\ [][(Reconnecting /\ PutStep(2)
           /\ (maxsize = 0 \/ Len(queue) < maxsize)) =>
            queue' = Append(queue, PutMsg(2))]_vars

\* C14 amended: the same, for a queue whose accounting allows clear() to
\* run (unfinished - length >= 0); otherwise connect() raises ValueError
\* with the new connection stored and no consumer thread started.
C14_ReconnectAfterCloseUnlessMisused ==
    /\ [][(Reconnecting /\ ConnectClearStep) =>
            IF unfinished - Len(queue) >= 0
            THEN /\ callerPc' = "idle"
                 /\ wsConn' = 2
                 /\ threadRef' = 2
                 /\ tpc'[2] = "check"
                 /\ queue' = <<>>
            ELSE /\ callerPc' = "raising"
                 /\ err' = "ValueError"
                 /\ wsConn' = 2
                 /\ threadRef' = 1
                 /\ tpc'[2] = "new"]_vars
    /\ [][(Reconnecting /\ PutStep(2)
           /\ (maxsize = 0 \/ Len(queue) < maxsize)) =>
            queue' = Append(queue, PutMsg(2))]_vars

\* C14 witness: connected again after a close(), the new thread alive, and
\* the queue holding one message, received on the new connection.
C14_Witness ==
    /\ Reconnecting
    /\ callerPc = "idle"
    /\ threadRef = 2
    /\ tpc[1] = "dead"
    /\ tpc[2] = "check"
    /\ Len(queue) = 1
    /\ queue[1].conn = 2


\* A topic parameter is set: a string that is not empty.
TopicSet(x) == x.t = "str" /\ x.s # <<>>

\* C15: publish() sends its request to the message's topic M if M is set
\* and not (A set and O); else to the argument topic A if set; else to the
\* client's default D if set; else it raises and sends no request.
C15_PublishTopicResolution ==
    call.op = "publish" =>
       LET D == client.default_topic
           M == call.msg_topic
           A == call.topic
           O == call.topic_override
           SentTo(x) == Len(requests) = 1 /\ requests[1].method = "POST"
                        /\ requests[1].topic = x
       IN  IF TopicSet(M) /\ ~(TopicSet(A) /\ O) THEN SentTo(M)
           ELSE IF TopicSet(A) THEN SentTo(A)
           ELSE IF TopicSet(D) THEN SentTo(D)
           ELSE ret.exc = "ValueError" /\ requests = <<>>

\* C15 witness: message topic and argument topic both given with the
\* override flag: the request went to the argument topic.
C15_Witness ==
    /\ call.op = "publish"
    /\ call.msg_topic = Str(<<"m">>)
    /\ call.topic = Str(<<"a">>)
    /\ call.topic_override
    /\ requests = <<[method |-> "POST", topic |-> Str(<<"a">>)]>>

\* C16 as claimed: a publish() whose request was sent raises APIError
\* exactly when the status is outside 200..299, and returns the response
\* for every status inside.
C16_PublishRaisesOutside2xx ==
    (call.op = "publish" /\ requests # <<>>) =>
       IF call.status \in 200..299
       THEN ret.exc = "none" /\ ret.value = [status_code |-> call.status]
       ELSE ret.exc = "APIError"

\* C16 amended: it raises APIError exactly when the status is not 200, and
\* returns the response when it is 200.
C16_PublishRaisesUnless200 ==
    (call.op = "publish" /\ requests # <<>>) =>
       IF call.status = 200
       THEN ret.exc = "none" /\ ret.value = [status_code |-> call.status]
       ELSE ret.exc = "APIError"

\* C16 witness: the server answered 204 and publish() raised APIError.
C16_Witness ==
    /\ call.op = "publish"
    /\ requests # <<>>
    /\ call.status = 204
    /\ ret.exc = "APIError"

C20_CredentialResolution ==
    call.op = "get_header" =>
       LET c == call.credentials
           Header(word, creds) ==
               /\ ret.exc = "none"
               /\ ret.value = <<<<"Authorization", word \o <<" ">> \o creds>>>>
       IN  IF c.bearer # PyNone THEN Header(BearerWord, c.bearer.s)
           ELSE IF c.basic.t = "str" THEN Header(BasicWord, c.basic.s)
           ELSE IF /\ c.basic.t = "tuple"
                   /\ Len(c.basic.v) = 2
                   /\ c.basic.v[1].t = "str"
                   /\ c.basic.v[2].t = "str"
                THEN Header(BasicWord,
                            B64Encode(EncodeAscii(
                                c.basic.v[1].s \o <<":">> \o c.basic.v[2].s)))
           ELSE IF c.basic # PyNone THEN ret.exc # "none"
           ELSE ret.exc = "none" /\ ret.value = <<>>

\* The messages of the non-empty lines among lines i.. of a response.
RECURSIVE MessagesOf(_, _)
MessagesOf(lines, i) ==
    IF i > Len(lines) THEN <<>>
    ELSE (IF lines[i] # "empty" THEN <<LineMessage(i)>> ELSE <<>>)
         \o MessagesOf(lines, i + 1)

\* The running generator reads a line.
PollReadsLine ==
    /\ poll.pc = "running"
    /\ poll'.pc \in {"running", "suspended", "raised"}
    /\ Len(poll'.lines) = Len(poll.lines) + 1

\* C17: poll() yields one message per non-empty line of a well-formed
\* response, in stream order, and nothing for an empty line; the stream is
\* open only while the generator is running or suspended, so it is released
\* on exhaustion and when the caller closes the generator early; and every
\* started poll() sends its own request and opens a stream of its own.
C17_PollYieldsLinesAndReleasesStream ==
    /\ [](/\ streams.open = 1 <=> poll.pc \in {"running", "suspended"}
          /\ (/\ poll.pc # "none"
              /\ \A i \in 1..Len(poll.lines) :
                    poll.lines[i] \in {"valid", "empty"})
             => poll.yielded = MessagesOf(poll.lines, 1))
    /\ [][/\ (PollReadsLine /\ poll'.lines[Len(poll'.lines)] = "empty")
             => /\ poll'.pc = "running"
                /\ poll'.yielded = poll.yielded
                /\ ret' = ret
          /\ (poll.pc = "created" /\ poll'.pc = "running")
             => /\ streams'.opened = streams.opened + 1
                /\ Len(requests') = 1
                /\ requests'[1].method = "GET"
                /\ poll'.lines = <<>>]_vars

\* C17 witness: a second poll() read a line, an empty line and a line,
\* yielded the first and the third and was exhausted, no stream left open.
C17_Witness ==
    /\ poll.pc = "exhausted"
    /\ poll.lines = <<"valid", "empty", "valid">>
    /\ poll.yielded = <<LineMessage(1), LineMessage(3)>>
    /\ streams = [opened |-> 2, open |-> 0]

\* C18: a line of the response that is malformed JSON or fails entity
\* parsing is skipped: poll() raises nothing, yields nothing for it, and
\* goes on reading the lines after it with the stream still open.
C18_PollSkipsMalformedLines ==
    [][(PollReadsLine
        /\ poll'.lines[Len(poll'.lines)] \notin {"valid", "empty"})
       => /\ poll'.pc = "running"
          /\ poll'.yielded = poll.yielded
          /\ ret' = ret
          /\ streams'.open = 1]_vars

\* The path of a URL ends in a slash.
TrailingSlash(e) == Len(e.path) > 0 /\ e.path[Len(e.path)] = "/"

\* C21: for a URL e whose path has no trailing slash, parsing the string
\* e.unparse() returns (no endpoint, no scheme pair) gives a URL with the
\* same six components; and no URL that parse returns has a path with a
\* trailing slash.
C21_ParseInvertsUnparse ==
    /\ [](call.op = "URL.parse" => ~TrailingSlash(ret.value))
    /\ [][(/\ call.op = "URL.unparse"
           /\ call.endpoint = PyNone
           /\ call.scheme = PyNone
           /\ ~TrailingSlash(url)
           /\ call'.op = "URL.parse"
           /\ call'.url = ret.value)
          => /\ ret'.value.scheme = url.scheme
             /\ ret'.value.netloc = url.netloc
             /\ ret'.value.path = url.path
             /\ ret'.value.params = url.params
             /\ ret'.value.query = url.query
             /\ ret'.value.fragment = url.fragment]_vars

\* The segments of the fields i.. of an action, each with the comma
\* before it: nothing for an unset field, the encoded value for a
\* positional field, name=value for a keyed field.
RECURSIVE FieldSegments(_, _)
FieldSegments(fields, i) ==
    IF i > Len(fields) THEN <<>>
    ELSE (IF fields[i][3] = PyNone THEN <<>>
          ELSE <<",">>
               \o (IF fields[i][2] THEN fields[i][1] \o <<"=">> ELSE <<>>)
               \o (IF fields[i][3] = Bool(FALSE)
                   THEN <<"f", "a", "l", "s", "e">>
                   ELSE DefaultSerializer(Str(fields[i][1]),
                                          fields[i][3]).value))
         \o FieldSegments(fields, i + 1)

\* C22: serializing an action whose fields hold strings, booleans and
\* mappings of strings gives the action's name followed, after a comma
\* each and in declaration order, by one segment per field that is not
\* unset: the encoded value for a positional field, name=value for a
\* keyed one; a field set to False gives false and only None is skipped.
C22_SerializeEmitsSetFieldsInOrder ==
    (/\ call.op = "serialize"
     /\ \A i \in 1..Len(call.action.fields) :
           call.action.fields[i][3].t # "int")
    => /\ ret.exc = "none"
       /\ ret.value = Str(call.action.action
                          \o FieldSegments(call.action.fields, 1))

\* C22 witness: a BroadcastAction with intent and extras unset and clear
\* False serialized to broadcast,l,clear=false.
C22_Witness ==
    /\ call.op = "serialize"
    /\ call.action = BroadcastAction(Str(<<"l">>), PyNone, PyNone,
                                     Bool(FALSE))
    /\ ret.exc = "none"
    /\ ret.value = Str(<<"b", "r", "o", "a", "d", "c", "a", "s", "t", ",", "l", ",", "c", "l", "e", "a", "r", "=", "f", "a", "l", "s", "e">>)

\* s with a backslash before each backslash and each double quote of it,
\* from character i on.
RECURSIVE EachEscaped(_, _)
EachEscaped(s, i) ==
    IF i > Len(s) THEN <<>>
    ELSE (IF s[i] \in {"backslash", "quote"} THEN <<"backslash", s[i]>>
          ELSE <<s[i]>>)
         \o EachEscaped(s, i + 1)

\* C23: the default serializer gives, for a string s, s with a backslash
\* before every backslash and then before every double quote, enclosed
\* in double quotes if and only if it has one of , ; = ' " \ in it, and
\* s itself if it has none.
C23_StringsEscapedThenEnclosed ==
    call.op = "_default_serializer" =>
       LET s == call.value.s
           special == \E i \in 1..Len(s) :
                         s[i] \in {",", ";", "=", "'", "quote", "backslash"}
       IN  /\ ret.exc = "none"
           /\ ret.value = Str(IF special
                              THEN <<"quote">> \o EachEscaped(s, 1)
                                   \o <<"quote">>
                              ELSE s)

\* C23 witness: the string \" comes out as "\\\"".
C23_Witness ==
    /\ call.op = "_default_serializer"
    /\ call.value = Str(<<"backslash", "quote">>)
    /\ ret.value = Str(<<"quote", "backslash", "backslash", "backslash",
                         "quote", "quote">>)

\* C24: a Message constructed with both templating and filename set (not
\* None) raises ValueError and nothing is sent and no pool touched; with
\* at most one of them set the Message is returned.
C24_MessageTemplatingExcludesFilename ==
    [][call'.op = "Message" =>
         /\ requests' = <<>>
         /\ UNCHANGED <<poolVars, pollVars>>
         /\ IF call'.templating # PyNone /\ call'.filename # PyNone
            THEN ret'.exc = "ValueError"
            ELSE /\ ret'.exc = "none"
                 /\ ret'.value.t = "Message"
                 /\ ret'.value.templating = call'.templating
                 /\ ret'.value.filename = call'.filename]_vars

\* templating=False with a filename has been refused.
C24_Witness ==
    /\ call.op = "Message"
    /\ call.templating = Bool(FALSE)
    /\ call.filename = Str(<<"f">>)
    /\ ret.exc = "ValueError"

\* C25: connect() installs the given pool or a new, open one; close()
\* closes the pool held if it is open, touches no other pool and leaves
\* the reference null; __enter__ connects only if no pool is held;
\* __exit__ does what close() does.
C25_PoolLifecycle ==
    [][/\ call'.op = "connect" =>
            IF call'.client # None
            THEN httpClient' = call'.client /\ isClosed' = isClosed
            ELSE /\ httpClient' = Len(isClosed) + 1
                 /\ isClosed' = Append(isClosed, FALSE)
       /\ call'.op \in {"close", "__exit__"} =>
            /\ httpClient' = None
            /\ Len(isClosed') = Len(isClosed)
            /\ \A p \in Pools :
                  isClosed'[p] = (isClosed[p] \/ p = httpClient)
       /\ call'.op = "__enter__" =>
            IF httpClient # None
            THEN httpClient' = httpClient /\ isClosed' = isClosed
            ELSE /\ httpClient' = Len(isClosed) + 1
                 /\ isClosed' = Append(isClosed, FALSE)]_vars

\* A `with` block has been entered and left: the one pool there is has
\* been closed and none is held.
C25_Witness ==
    /\ call.op = "__exit__"
    /\ withDepth = 0
    /\ httpClient = None
    /\ isClosed = <<TRUE>>

\* C26: when the consumer thread, past the null check, makes its recv
\* call, the reference is not None, and the call does not end in an
\* exception that leaves _thread_fn.
C26_NoRecvOnNullNoUnhandledException ==
    [][\A t \in Threads :
          tpc[t] = "call" /\ tpc'[t] # "call" =>
             /\ wsConn # None
             /\ tpc'[t] # "raised"]_vars

\* The consumer thread stored in _thread is alive.
ThreadAlive == IF threadRef = None THEN FALSE ELSE Alive(threadRef)

\* C27: with no public operation in progress, a connection reference is
\* held only while the consumer thread is alive; a `with` entered after
\* the remote closed the connection and the thread ended opens a new
\* connection.
C27_ReferenceOnlyWhileThreadAlive ==
    /\ [](callerPc = "idle" /\ wsConn # None => ThreadAlive)
    /\ [][(/\ callerPc = "idle"
           /\ ~inScope
           /\ (inScope' \/ op' = "enter")
           /\ wsConn # None
           /\ ~ThreadAlive
           /\ remoteClosed[wsConn])
          => (nconn' = nconn + 1 /\ wsConn' = nconn + 1)]_vars

\* C28: with task_done() called at most once per item taken, the queue
\* is no longer than the count of unfinished tasks, and no longer than
\* max_queue_size when that is positive.
C28_QueueLengthWithinBounds ==
    /\ 0 <= Len(queue)
    /\ Len(queue) <= unfinished
    /\ maxsize > 0 => Len(queue) <= maxsize

\* A bounded queue is full, with an item taken and not yet reported done,
\* after the clear() of a second connect().
C28_Witness ==
    /\ maxsize > 0
    /\ Len(queue) = maxsize
    /\ taken = 1
    /\ unfinished = Len(queue) + 1
    /\ nconn = 2
    /\ callerPc = "idle"

\* C29: the message a get() returns is not in the queue a second time, and
\* no message left in the queue was received before it on the same
\* connection.
C29_GetReturnsInReceiveOrder ==
    [][(/\ callerPc = "idle"
        /\ callerPc' = "idle"
        /\ queue # <<>>
        /\ queue' = Tail(queue)
        /\ unfinished' = unfinished)
       => \A j \in 2..Len(queue) :
             /\ queue[j] # queue[1]
             /\ queue[j].conn = queue[1].conn
                => queue[j].seq > queue[1].seq]_vars

\* C30: from_json leaves the object it is given as it was, nested action
\* objects included, and a second call on the same object returns or
\* raises what the first did.
C30_FromJsonRepeatable ==
    [][call'.op = "from_json" =>
         /\ raw' = raw
         /\ call.op = "from_json" =>
               /\ ret'.exc = ret.exc
               /\ ret'.value = ret.value]_vars

====
